---- MODULE Spec2Model ----
(***************************************************************************)
(* A model of the yacht_osint feed pipeline: the resilient HTTP client     *)
(* (src/common/http.py), the headless-browser fetch                        *)
(* (src/common/browser_fetch.py), the single-URL discovery pipeline        *)
(* (src/scrape/parse.py), the batch discovery and the reading of feed       *)
(* entries (src/scrape/rss.py), the pipeline (src/cli.py), the search      *)
(* engines (src/scrape/search.py) and the record extractor                 *)
(* (src/extract/parse.py).                                                 *)
(* Each component is a state machine of its own with its own               *)
(* specification; the variables of the other components stay at their      *)
(* initial values.                                                         *)
(***************************************************************************)
EXTENDS Integers, Sequences, FiniteSets, TLC

VARIABLES
    hPc,        \* http.request: "idle" | "running" | "returned" | "raised"
    hAttempts,  \* http.request: calls of SESSION.request made by this call
    hEvents,    \* http.request: what the call did so far, in order
    hResp,      \* http.request: the outcome of the latest SESSION.request
    hSlept,     \* http.request: seconds of time.sleep in the latest attempt
    bPc,        \* fetch_with_browser: each caller's position
    bHeld,      \* fetch_with_browser: permits of BROWSER_SEMAPHORE held
    bResult,    \* fetch_with_browser: each caller's latest result
    bThrottled, \* fetch_with_browser: throttle sleeps done by each caller
    pPc,        \* parse.discover_feeds: "idle" | "running" | "returned" | "raised"
    pVcr,       \* parse.discover_feeds: whether the vcr module has a "mode" attribute
    pHtml,      \* parse.discover_feeds: the page fetch_html returned
    pInvoked,   \* parse.discover_feeds: the approaches invoked so far, in order
    pValidBy,   \* parse.discover_feeds: the valid list each invoked approach ended with
    pSeen,      \* parse.discover_feeds: the set seen
    pRequests,  \* parse.discover_feeds: the URLs _validate_feed requested, in order
    pNet,       \* parse.discover_feeds: what each validation request met
    pResult,    \* parse.discover_feeds: the returned list
    rPc,        \* rss.discover_feeds: "idle" | "next" | "fetching" | "discovering"
                \*   | "returned" | "raised"
    rCount,     \* rss.discover_feeds: entries of the input taken so far
    rEntry,     \* rss.discover_feeds: the entry taken last
    rNorm,      \* rss.discover_feeds: its normalized domain ("" when rejected)
    rPlain,     \* rss.discover_feeds: what requests.get met for this domain
    rGot,       \* rss.discover_feeds: what _get_html returned for this domain
    rBrowser,   \* rss.discover_feeds: calls of fetch_with_browser for this domain
    rCalls,     \* rss.discover_feeds: the calls made for this domain, in order
    rLinkFeeds, \* rss.discover_feeds: validated URLs the <link> tags gave for it
    rFound,     \* rss.discover_feeds: the list found of this domain
    rFeeds,     \* rss.discover_feeds: the dict feeds, in insertion order
    rSaved,     \* rss.discover_feeds: the diagnostics files written, by domain
    rValid,     \* rss.discover_feeds: the domains of the entries it accepted
    rSkipped,   \* rss.discover_feeds: entries it left with "continue"
    rLive,      \* rss.discover_feeds: the paths of this domain that answer as feeds
    rFinder,    \* rss.discover_feeds: whether feedfinder2 was called, and its list ([] on a raise)
    fPc,        \* rss.fetch_entries: "idle" | "domain" | "url" | "store" | "returned"
    fMap,       \* rss.fetch_entries: the caller's feed_map, in insertion order
    fInput,     \* fetch_entries: feed_map as it was when the call began
    fLimit,     \* rss.fetch_entries: the argument limit
    fAt,        \* rss.fetch_entries: items of feed_map taken so far
    fIdx,       \* rss.fetch_entries: URLs of this domain taken so far
    fCollected, \* rss.fetch_entries: the list collected of this domain
    fParsed,    \* rss.fetch_entries: the feedparser.parse calls made so far
    fResults,   \* rss.fetch_entries: the dict results, in insertion order
    cPc,        \* cli.run: "start" | "discover" | "fetch" | "save" | "stages" | "done"
    cDomains,   \* cli.run: the list domains handed to rss.run
    cFeeds,     \* rss.run: the dict feeds discover_feeds returned
    cEntries,   \* rss.run: the dict entries fetch_entries returned
    cRun,       \* rss.run: "none" | "returned" | "raised"
    cCalls,     \* cli.run: the stages invoked and files written, in order
    cExit,      \* cli.run: "none" | "ok" | the exception that ended the run
    sPc,        \* search_sites: "idle" | "loop" | "returned" | "raised"
    sCount,     \* _search_google: the module's _consecutive_429s
    sStreak,    \* _search_google: the 429 responses since the last other response
    sAtCall,    \* _search_google: sStreak when the latest call began
    sAttempt,   \* _search_google: requests.get calls made by the latest call
    sCalls,     \* search_sites: calls made in this process
    sGoogle,    \* _search_google: the list the latest call returned
    sOthers,    \* search_sites: what _search_bing and _search_duckduckgo return
    sResult,    \* search_sites: the list the latest call returned
    sRunPc,     \* search.run: "next" | "searching" | "returned"
    sNow,       \* search.run: the latest value of int(time.time())
    sRun,       \* search.run: the list results
    sOut,       \* search.run: the list it returned
    xPc,        \* extract.parse: "idle" | "parsed" | "running" | "returned"
    xEntry,     \* parse_entry: the entry it was called with
    xRecord,    \* parse_entry: the record it returned
    xInput,     \* extract.parse.run: the mapping entries, in insertion order
    xDom,       \* extract.parse.run: values of the mapping taken so far
    xItem,      \* extract.parse.run: entries of this value taken so far
    xRecords,   \* extract.parse.run: the list records
    oPc,        \* discover_feeds loop: "idle" | "next" | "fetching" | "discovering" | ...
    oInput,     \* discover_feeds loop: the entries taken from domains so far
    oFound,     \* discover_feeds loop: whether each finished entry ended with feeds
    oLog,       \* discover_feeds loop: the input position behind each network call
    oFeeds,     \* discover_feeds loop: the dict feeds, in insertion order
    kPc,        \* crawl.run: "idle" | "loop" | "returned" | "raised"
    kFeeds,     \* crawl.run: the argument feeds
    kAt,        \* crawl.run: entries of feeds taken so far
    kGets,      \* crawl.run: the URLs handed to requests.get, in order
    kWarned     \* crawl.run: the positions logged as "invalid feed entry skipped"

httpVars == <<hPc, hAttempts, hEvents, hResp, hSlept>>
browserVars == <<bPc, bHeld, bResult, bThrottled>>
parseVars == <<pPc, pVcr, pHtml, pInvoked, pValidBy, pSeen, pRequests, pNet, pResult>>
rssVars == <<rPc, rCount, rEntry, rNorm, rPlain, rGot, rBrowser, rCalls, rLinkFeeds,
             rFound, rFeeds, rSaved, rValid, rSkipped, rLive, rFinder>>
fetchVars == <<fPc, fMap, fInput, fLimit, fAt, fIdx, fCollected, fParsed, fResults>>
cliVars == <<cPc, cDomains, cFeeds, cEntries, cRun, cCalls, cExit>>
searchVars == <<sPc, sCount, sStreak, sAtCall, sAttempt, sCalls, sGoogle, sOthers,
                sResult, sRunPc, sNow, sRun, sOut>>
extractVars == <<xPc, xEntry, xRecord, xInput, xDom, xItem, xRecords>>
orderVars == <<oPc, oInput, oFound, oLog, oFeeds>>
crawlVars == <<kPc, kFeeds, kAt, kGets, kWarned>>
vars == <<httpVars, browserVars, parseVars, rssVars, fetchVars, cliVars, searchVars,
          extractVars, orderVars, crawlVars>>

\* --------------------------------------------------------------- bounds

\* Longest Retry-After header value, in characters.
MaxHdrLen == 2

\* Concurrent callers of fetch_with_browser.
NumCallers == 3

\* Entries of the input of rss.discover_feeds.
MaxDomains == 2

\* The largest argument limit of rss.fetch_entries.
MaxLimit == 2

\* The most entries one parsed feed holds.
MaxEntries == 2

\* Calls of search_sites in one process.
MaxCalls == 3

\* Characters of a title handed to parse_entry.
MaxTextLen == 4

\* Entries of domains in the loop of rss.discover_feeds, for the order of keys.
MaxBatch == 3

\* Entries of the argument feeds of crawl.run.
MaxFeeds == 3

\* ------------------------------------------------------------ utilities

Last(s) == s[Len(s)]

SeqsUpTo(S, n) == UNION {[1..k -> S] : k \in 0..n}

\* F(x), with x computed once and handed over as a value.
Bind(x, F(_)) == CHOOSE r \in {F(v) : v \in {x}} : TRUE

\* ------------------------------------------------- http.py: http.request

\* stop_after_attempt(5)
MaxAttempts == 5

\* The characters a Retry-After value is written with here: a sign, two
\* digits and a character that is no part of a number.
HdrChars == {"-", "0", "1", "x"}

Digits == {"0", "1", "8"}

DigitVal(c) == IF c = "1" THEN 1 ELSE IF c = "8" THEN 8 ELSE 0

RECURSIVE DigitsVal(_)
DigitsVal(s) ==
    IF s = <<>> THEN 0
    ELSE 10 * DigitsVal(SubSeq(s, 1, Len(s) - 1)) + DigitVal(Last(s))

AllDigits(s) == Len(s) >= 1 /\ \A i \in 1..Len(s) : s[i] \in Digits

\* int(retry_after): the value, or a ValueError when the text is no integer.
ParseInt(s) ==
    IF AllDigits(s) THEN [ok |-> TRUE, val |-> DigitsVal(s)]
    ELSE IF Len(s) >= 2 /\ s[1] = "-" /\ AllDigits(Tail(s))
    THEN [ok |-> TRUE, val |-> 0 - DigitsVal(Tail(s))]
    ELSE [ok |-> FALSE, val |-> 0]

NoHeader == [present |-> FALSE, text |-> <<>>]

RetryAfterValues ==
    {NoHeader} \cup {[present |-> TRUE, text |-> t] : t \in SeqsUpTo(HdrChars, MaxHdrLen)}

Statuses == {200, 403, 404, 429, 500}

\* What SESSION.request can do: raise a RequestException (a network
\* failure), or return a response.
NetOutcomes ==
    {[kind |-> "exception", status |-> 0, retryAfter |-> NoHeader]}
    \cup {[kind |-> "response", status |-> s, retryAfter |-> NoHeader] : s \in Statuses \ {429}}
    \cup {[kind |-> "response", status |-> 429, retryAfter |-> h] : h \in RetryAfterValues}

NoResp == [kind |-> "none", status |-> 0, retryAfter |-> NoHeader]

\* A variant that sleeps for the size of a negative value too.
RetryAfterSleepAbs(resp) ==
    IF ~resp.retryAfter.present THEN 0
    ELSE LET wait == ParseInt(resp.retryAfter.text)
         IN  IF ~wait.ok THEN 0
             ELSE IF wait.val > 0 THEN wait.val ELSE 0 - wait.val

\* The seconds request() sleeps for a 429 response before raising: int() of
\* the header when it is there, parses and is positive, else nothing.
RetryAfterSleep(resp) ==
    IF ~resp.retryAfter.present THEN 0
    ELSE LET wait == ParseInt(resp.retryAfter.text)
         IN  IF ~wait.ok THEN 0
             ELSE IF wait.val > 0 THEN wait.val ELSE 0

\* A variant that raises for every status from 400 on.
RaisesOnClientError(resp) ==
    \/ resp.kind = "exception"
    \/ resp.status >= 400

\* A variant that takes a 429 response for a result.
RaisesOnServerError(resp) ==
    \/ resp.kind = "exception"
    \/ resp.status >= 500

\* Whether the body of request() raises RequestException for this outcome.
RaisesRequestException(resp) ==
    \/ resp.kind = "exception"
    \/ resp.status = 429
    \/ resp.status >= 500

\* A variant that allows one attempt more.
StopAfterSix(n) == n >= MaxAttempts + 1

\* stop_after_attempt: no further attempt once this many were made.
StopAfterAttempt(n) == n >= MaxAttempts

RequestEv(resp) == [ev |-> "request", kind |-> resp.kind, status |-> resp.status]
SleepEv == [ev |-> "retry_after_sleep", kind |-> "", status |-> 0]
BackoffEv == [ev |-> "backoff", kind |-> "", status |-> 0]
ThrottleEv == [ev |-> "throttle", kind |-> "", status |-> 0]

\* The events of one run of the body of request(): the request itself and
\* the Retry-After sleep of a 429.
BodyEvents(resp) ==
    <<RequestEv(resp)>>
    \o (IF resp.kind = "response" /\ resp.status = 429 /\ RetryAfterSleep(resp) > 0
        THEN <<SleepEv>> ELSE <<>>)

\* The seconds the body of request() spends in time.sleep for this outcome.
BodySleep(resp) ==
    IF resp.kind = "response" /\ resp.status = 429 THEN RetryAfterSleep(resp) ELSE 0

HttpInit ==
    /\ hPc = "idle"
    /\ hAttempts = 0
    /\ hEvents = <<>>
    /\ hResp = NoResp
    /\ hSlept = 0

\* A caller enters request(method, url).
HttpCall ==
    /\ hPc = "idle"
    /\ hPc' = "running"
    /\ UNCHANGED <<hAttempts, hEvents, hResp, hSlept>>
    /\ UNCHANGED <<browserVars, parseVars, rssVars, fetchVars, cliVars, searchVars, extractVars, orderVars, crawlVars>>

\* One attempt: the body of request() runs once, then tenacity decides:
\* return the response, retry after a backoff wait, or reraise.
HttpAttempt ==
    /\ hPc = "running"
    /\ \E resp \in NetOutcomes :
        /\ hResp' = resp
        /\ hAttempts' = hAttempts + 1
        /\ hSlept' = BodySleep(resp)
        /\ IF ~RaisesRequestException(resp)
           THEN /\ hPc' = "returned"
                /\ hEvents' = hEvents \o BodyEvents(resp)
           ELSE IF StopAfterAttempt(hAttempts + 1)
           THEN /\ hPc' = "raised"
                /\ hEvents' = hEvents \o BodyEvents(resp)
           ELSE /\ hPc' = "running"
                /\ hEvents' = hEvents \o BodyEvents(resp) \o <<BackoffEv>>
    /\ UNCHANGED <<browserVars, parseVars, rssVars, fetchVars, cliVars, searchVars, extractVars, orderVars, crawlVars>>

HttpNext ==
    \/ HttpCall
    \/ HttpAttempt

\* ------------------------------------- browser_fetch.py: fetch_with_browser

\* asyncio.Semaphore(2)
SemaphorePermits == 2

Callers == 1..NumCallers

NoResult == [outcome |-> "none", body |-> "", status |-> 0, ctype |-> ""]

\* What page.goto and page.content can do: a response, no response object,
\* a navigation timeout, or another Playwright error.
GotoOutcomes ==
    {[outcome |-> "return", body |-> "rendered", status |-> st, ctype |-> "text/html"] :
        st \in {200, 403}}
    \cup {[outcome |-> "return", body |-> "rendered", status |-> 0, ctype |-> ""]}
    \cup {[outcome |-> "timeout", body |-> "", status |-> 0, ctype |-> ""]}
    \cup {[outcome |-> "error", body |-> "", status |-> 0, ctype |-> ""]}

\* The body None: no bytes at all.
NoBody == "None"

\* A variant in which the TimeoutError is not caught.
BrowserReturnUncaught(o) ==
    IF o.outcome \in {"timeout", "error"}
    THEN [outcome |-> "raise", body |-> "", status |-> 0, ctype |-> ""]
    ELSE o

\* What fetch_with_browser hands back for an outcome of the try block: the
\* except clause turns a TimeoutError into (None, 0, ""); any other
\* exception leaves through the finally clause.
BrowserReturn(o) ==
    IF o.outcome = "timeout"
    THEN [outcome |-> "return", body |-> NoBody, status |-> 0, ctype |-> ""]
    ELSE IF o.outcome = "error"
    THEN [outcome |-> "raise", body |-> "", status |-> 0, ctype |-> ""]
    ELSE o

\* The callers that have a browser launched and not yet closed.
OpenSessions == {c \in Callers : bPc[c] \in {"open", "closing"}}

BrowserInit ==
    /\ bPc = [c \in Callers |-> "idle"]
    /\ bHeld = 0
    /\ bResult = [c \in Callers |-> NoResult]
    /\ bThrottled = [c \in Callers |-> 0]

\* fetch_with_browser starts with throttle_sleep().
BrowserThrottle(c) ==
    /\ bPc[c] = "idle"
    /\ bPc' = [bPc EXCEPT ![c] = "throttled"]
    /\ bThrottled' = [bThrottled EXCEPT ![c] = 1]
    /\ bResult' = [bResult EXCEPT ![c] = NoResult]
    /\ UNCHANGED bHeld
    /\ UNCHANGED <<httpVars, parseVars, rssVars, fetchVars, cliVars, searchVars, extractVars, orderVars, crawlVars>>

\* sync_playwright(), chromium.launch, new_context, new_page: no permit of
\* BROWSER_SEMAPHORE is taken on the way.
BrowserLaunch(c) ==
    /\ bPc[c] = "throttled"
    /\ bPc' = [bPc EXCEPT ![c] = "open"]
    /\ UNCHANGED <<bHeld, bResult, bThrottled>>
    /\ UNCHANGED <<httpVars, parseVars, rssVars, fetchVars, cliVars, searchVars, extractVars, orderVars, crawlVars>>

\* The try block: page.goto, page.content, the status and content type.
BrowserGoto(c) ==
    /\ bPc[c] = "open"
    /\ \E o \in GotoOutcomes :
        bResult' = [bResult EXCEPT ![c] = o]
    /\ bPc' = [bPc EXCEPT ![c] = "closing"]
    /\ UNCHANGED <<bHeld, bThrottled>>
    /\ UNCHANGED <<httpVars, parseVars, rssVars, fetchVars, cliVars, searchVars, extractVars, orderVars, crawlVars>>

\* The finally clause, browser.close(), then the return or the exception.
BrowserClose(c) ==
    /\ bPc[c] = "closing"
    /\ bPc' = [bPc EXCEPT ![c] = "idle"]
    /\ bResult' = [bResult EXCEPT ![c] = BrowserReturn(bResult[c])]
    /\ bThrottled' = [bThrottled EXCEPT ![c] = 0]
    /\ UNCHANGED bHeld
    /\ UNCHANGED <<httpVars, parseVars, rssVars, fetchVars, cliVars, searchVars, extractVars, orderVars, crawlVars>>

BrowserNext ==
    \E c \in Callers :
        \/ BrowserThrottle(c)
        \/ BrowserLaunch(c)
        \/ BrowserGoto(c)
        \/ BrowserClose(c)

\* ------------------------------------------------------------ URL text
\* A URL or href is a sequence of text pieces ("https", "://", "a.com",
\* "/feed", "?q", "#f"); a piece is never cut in two.

SchemeToks == {"https", "http", "ftp", "HTTPS"}
HostToks == {"example.com", "a.com", "b.com", "cdn.net"}
SuffixToks == {".xml", ".rss"}
AbsPathToks ==
    {"/feed", "/rss", "/feeds/posts/default", "/feed.xml", "/blog/rss", "/about",
     "/atom.xml", "/rss.xml", "/.rss", "/index.xml", "/feed.json"}
RelPathToks ==
    {"feed", "rss", "rss.xml", "atom.xml", ".rss", "feed.xml", "index.xml",
     "feeds/posts/default", "feed.json"}
QueryToks == {"?alt=atom", "?alt=rss", "?q"}
FragToks == {"#f"}

\* str.lower() on the pieces that have upper-case letters.
Lower(t) ==
    CASE t = "HTTPS" -> "https"
      [] t = "Application/Atom+XML" -> "application/atom+xml"
      [] t = "Alternate" -> "alternate"
      [] OTHER -> t

RECURSIVE Concat(_)
Concat(ts) == IF ts = <<>> THEN "" ELSE Head(ts) \o Concat(Tail(ts))

\* The length of the longest prefix of ts with no piece of the set stop.
RECURSIVE PrefixLen(_, _)
PrefixLen(ts, stop) ==
    IF ts = <<>> \/ Head(ts) \in stop THEN 0 ELSE 1 + PrefixLen(Tail(ts), stop)

Drop(ts, n) == SubSeq(ts, n + 1, Len(ts))

\* urllib.parse.urlparse: scheme (lower-cased) before "://", the network
\* location up to the first "/", "?" or "#", then path, query, fragment.
UrlParse(t) ==
    LET hasScheme == Len(t) >= 2 /\ t[2] = "://" /\ t[1] \in SchemeToks \cup HostToks
        protoRel  == Len(t) >= 1 /\ t[1] = "//"
        rest      == IF hasScheme THEN Drop(t, 2) ELSE IF protoRel THEN Drop(t, 1) ELSE t
        nl        == IF hasScheme \/ protoRel
                     THEN PrefixLen(rest, AbsPathToks \cup QueryToks \cup FragToks) ELSE 0
        after     == Drop(rest, nl)
        pl        == PrefixLen(after, QueryToks \cup FragToks)
        tail      == Drop(after, pl)
        ql        == PrefixLen(tail, FragToks)
    IN  [scheme   |-> IF hasScheme THEN Lower(t[1]) ELSE "",
         netloc   |-> Concat(SubSeq(rest, 1, nl)),
         path     |-> Concat(SubSeq(after, 1, pl)),
         query    |-> Concat(SubSeq(tail, 1, ql)),
         fragment |-> Concat(Drop(tail, ql))]

NonEmpty(x) == IF x = "" THEN <<>> ELSE <<x>>

\* ParseResult.geturl(): the text of a parsed URL.
GetUrl(u) ==
    (IF u.scheme # "" THEN <<u.scheme, "://">> ELSE IF u.netloc # "" THEN <<"//">> ELSE <<>>)
    \o NonEmpty(u.netloc) \o NonEmpty(u.path) \o NonEmpty(u.query) \o NonEmpty(u.fragment)

\* The text of scheme://netloc, as the f-strings of the code build it.
RootOf(url) == LET u == UrlParse(url) IN <<u.scheme, "://", u.netloc>>

\* Text concatenation: the pieces of both, joined where they meet.
StrCat(a, b) == GetUrl(UrlParse(a \o b))

\* urljoin for a base and an href already parsed (b, h).
JoinParsed(base, href, b, h) ==
    IF href = <<>> THEN base
    ELSE IF h.scheme # "" /\ h.scheme # b.scheme THEN href
    ELSE GetUrl(
        IF h.netloc # "" THEN [h EXCEPT !.scheme = b.scheme]
        ELSE IF h.path = ""
        THEN [b EXCEPT !.query = IF h.query # "" THEN h.query ELSE b.query,
                       !.fragment = h.fragment]
        ELSE [b EXCEPT !.path = IF h.path \in AbsPathToks THEN h.path ELSE "/" \o h.path,
                       !.query = h.query, !.fragment = h.fragment])

\* urllib.parse.urljoin(base, href).
UrlJoin(base, href) ==
    CHOOSE r \in {JoinParsed(bt, ht, UrlParse(bt), UrlParse(ht)) :
                      bt \in {base}, ht \in {href}} : TRUE

\* ------------------------------------------- parse.py: parse.discover_feeds

\* The url discover_feeds is called with.
ParseUrl == <<"https", "://", "example.com">>

U(path) == <<"https", "://", "example.com", path>>

Link(rel, type, href) == [rel |-> rel, type |-> type, href |-> href]

\* The pages fetch_html can return: the <link> tags (rel is the list of
\* its words, empty when absent; type "" and href <<>> when absent) and
\* the href of each <a href>.
Pages ==
    { [links |-> <<>>, anchors |-> <<>>],
      [links |-> <<Link(<<"alternate">>, "application/rss+xml", <<"/feed.xml">>)>>,
       anchors |-> <<>>],
      [links |-> <<Link(<<"alternate">>, "text/html", <<"/about">>)>>,
       anchors |-> <<<<"/blog/rss">>, <<"/about">>>>],
      [links |-> <<Link(<<"stylesheet">>, "application/rss+xml", <<"/feed">>)>>,
       anchors |-> <<<<"/feed">>, <<"/feed">>>>],
      [links |-> <<Link(<<"alternate">>, "Application/Atom+XML",
                        <<"https", "://", "cdn.net", "/atom.xml">>),
                   Link(<<"alternate">>, "application/rss+xml", <<>>)>>,
       anchors |-> <<<<"/rss">>>>] }

\* What feedfinder2.find_feeds can return.
FinderResults == {<<>>, <<U("/feed")>>, <<U("/blog/rss"), U("/about")>>}

\* The pieces whose lower-cased text holds "feed", "rss" or "atom".
FeedWordToks ==
    {"/feed", "/rss", "/feeds/posts/default", "/feed.xml", "/blog/rss", "/atom.xml",
     "/rss.xml", "/.rss", "/feed.json", "feed", "rss", "rss.xml", "atom.xml", ".rss",
     "feed.xml", "feeds/posts/default", "feed.json", "?alt=atom", "?alt=rss"}

MapSeq(s, F(_)) == Bind(s, LAMBDA v : [i \in 1..Len(v) |-> F(v[i])])

Range(s) == {s[i] : i \in 1..Len(s)}

\* _stage_link_rel: the <link rel="alternate"> tags with an RSS or Atom
\* type and an href, joined to the base.
StageLinkRel(html, base) ==
    LET Keep(l) == /\ "alternate" \in Range(l.rel)
                   /\ Lower(l.type) \in {"application/rss+xml", "application/atom+xml"}
                   /\ l.href # <<>>
        Join(l) == UrlJoin(base, l.href)
    IN  MapSeq(SelectSeq(html.links, Keep), Join)

\* _stage_anchor_heuristics: the <a href> whose href holds a feed word.
StageAnchorHeuristics(html, base) ==
    LET Keep(h) == \E i \in 1..Len(h) : Lower(h[i]) \in FeedWordToks
        Join(h) == UrlJoin(base, h)
    IN  MapSeq(SelectSeq(html.anchors, Keep), Join)

DefaultEndpoints ==
    << <<"/feed">>, <<"/rss">>, <<"/feeds/posts/default", "?alt=atom">>,
       <<"/feeds/posts/default", "?alt=rss">> >>

\* probe_default_endpoints
ProbeDefaultEndpoints(url) ==
    LET Join(ep) == UrlJoin(RootOf(url), ep) IN MapSeq(DefaultEndpoints, Join)

ExtProbes == << <<".xml">>, <<".rss">> >>

\* _probe_extensions
ProbeExtensions(url) ==
    LET Cat(ext) == StrCat(RootOf(url), ext) IN MapSeq(ExtProbes, Cat)

\* The approaches of discover_feeds, in the order of the list.
Approaches == <<"link-rel", "defaults", "anchors", "feedfinder2", "extensions">>

\* What a validation request can meet: a status, or a network error.
ValOutcomes ==
    {[kind |-> "response", status |-> st] : st \in {200, 302, 404}}
    \cup {[kind |-> "exception", status |-> 0]}

\* A variant that rejects a URL whose request failed.
ValidateFeedStrict(o) ==
    IF o.kind = "exception" THEN FALSE ELSE 200 <= o.status /\ o.status < 400

\* _validate_feed: the status is in 200..399, or the request failed and
\* the URL is kept.
ValidateFeed(o) ==
    IF o.kind = "exception" THEN TRUE ELSE 200 <= o.status /\ o.status < 400

\* The candidates of the approach named name (finder: what feedfinder2
\* returns).
Candidates(name, html, url, finder) ==
    CASE name = "link-rel" -> StageLinkRel(html, url)
      [] name = "defaults" -> ProbeDefaultEndpoints(url)
      [] name = "anchors" -> StageAnchorHeuristics(html, url)
      [] name = "feedfinder2" -> finder
      [] name = "extensions" -> ProbeExtensions(url)

\* Whether a candidate not seen before is validated at all: only when the
\* vcr module has no attribute "mode".
Validates(vcr) == ~vcr

\* A variant that takes no candidate for seen.
SeenNever(c, seen) == FALSE

\* "if c in seen: continue"
Seen(c, seen) == c \in seen

\* The loop over the candidates of one approach: [valid, seen, requests].
RECURSIVE Filter(_, _, _, _, _)
Filter(cands, acc, net, vcr, i) ==
    IF i > Len(cands) THEN acc
    ELSE LET c == cands[i]
         IN  IF Seen(c, acc.seen) THEN Filter(cands, acc, net, vcr, i + 1)
             ELSE LET seen2 == acc.seen \cup {c}
                      reqs2 == IF Validates(vcr) THEN Append(acc.requests, c)
                               ELSE acc.requests
                  IN  IF Validates(vcr) /\ ~ValidateFeed(net[c])
                      THEN Filter(cands, [acc EXCEPT !.seen = seen2, !.requests = reqs2],
                                  net, vcr, i + 1)
                      ELSE Filter(cands, [valid |-> Append(acc.valid, c), seen |-> seen2,
                                          requests |-> reqs2], net, vcr, i + 1)

\* A variant that never ends the search early.
StageNeverSucceeds(valid) == FALSE

\* Whether the approach ends the search: "if valid: return valid".
StageSucceeded(valid) == valid # <<>>

ParseInit ==
    /\ pPc = "idle"
    /\ pVcr = FALSE
    /\ pHtml = [links |-> <<>>, anchors |-> <<>>]
    /\ pInvoked = <<>>
    /\ pValidBy = <<>>
    /\ pSeen = {}
    /\ pRequests = <<>>
    /\ pNet = <<>>
    /\ pResult = <<>>

\* discover_feeds(url) starts: fetch_html returns the page, or raises once
\* its three attempts failed.
ParseFetch ==
    /\ pPc = "idle"
    /\ pVcr' \in BOOLEAN
    /\ \/ \E page \in Pages : pHtml' = page /\ pPc' = "running"
       \/ pHtml' = pHtml /\ pPc' = "raised"
    /\ UNCHANGED <<pInvoked, pValidBy, pSeen, pRequests, pNet, pResult>>
    /\ UNCHANGED <<httpVars, browserVars, rssVars, fetchVars, cliVars, searchVars, extractVars, orderVars, crawlVars>>

\* One turn of "for name, func in approaches": the approach is invoked, its
\* candidates are filtered, and a non-empty valid list is returned.
ParseApproach ==
    /\ pPc = "running"
    /\ Len(pInvoked) < Len(Approaches)
    /\ LET name == Approaches[Len(pInvoked) + 1] IN
       \E finder \in (IF name = "feedfinder2" THEN FinderResults ELSE {<<>>}) :
         LET cands == Candidates(name, pHtml, ParseUrl, finder)
             fresh == Range(cands) \ pSeen
         IN  \E net \in [fresh -> ValOutcomes] :
               LET r == Filter(cands, [valid |-> <<>>, seen |-> pSeen,
                                       requests |-> pRequests], pNet @@ net, pVcr, 1)
               IN  /\ pInvoked' = Append(pInvoked, name)
                   /\ pValidBy' = Append(pValidBy, r.valid)
                   /\ pSeen' = r.seen
                   /\ pRequests' = r.requests
                   /\ pNet' = pNet @@ net
                   /\ IF StageSucceeded(r.valid)
                      THEN pPc' = "returned" /\ pResult' = r.valid
                      ELSE pPc' = "running" /\ pResult' = pResult
    /\ UNCHANGED <<pVcr, pHtml>>
    /\ UNCHANGED <<httpVars, browserVars, rssVars, fetchVars, cliVars, searchVars, extractVars, orderVars, crawlVars>>

\* feedfinder2.find_feeds fetches the page itself and may raise.
ParseFinderRaises ==
    /\ pPc = "running"
    /\ Len(pInvoked) < Len(Approaches)
    /\ Approaches[Len(pInvoked) + 1] = "feedfinder2"
    /\ pInvoked' = Append(pInvoked, "feedfinder2")
    /\ pValidBy' = Append(pValidBy, <<>>)
    /\ pPc' = "raised"
    /\ UNCHANGED <<pVcr, pHtml, pSeen, pRequests, pNet, pResult>>
    /\ UNCHANGED <<httpVars, browserVars, rssVars, fetchVars, cliVars, searchVars, extractVars, orderVars, crawlVars>>

\* The loop ends with no approach left: "return []".
ParseReturnEmpty ==
    /\ pPc = "running"
    /\ Len(pInvoked) = Len(Approaches)
    /\ pPc' = "returned"
    /\ pResult' = <<>>
    /\ UNCHANGED <<pVcr, pHtml, pInvoked, pValidBy, pSeen, pRequests, pNet>>
    /\ UNCHANGED <<httpVars, browserVars, rssVars, fetchVars, cliVars, searchVars, extractVars, orderVars, crawlVars>>

ParseNext ==
    \/ ParseFetch
    \/ ParseApproach
    \/ ParseFinderRaises
    \/ ParseReturnEmpty

\* --------------------------------------------- rss.py: rss.discover_feeds

StrEntry(label, d) == [kind |-> "str", hasDomain |-> FALSE, domain |-> d, label |-> label]
DictEntry(label, has, d) == [kind |-> "dict", hasDomain |-> has, domain |-> d, label |-> label]
NoneEntry == [kind |-> "none", hasDomain |-> FALSE, domain |-> <<>>, label |-> "none"]

\* The entries an input list is made of; label names what the entry is.
Entries ==
    { StrEntry("empty", <<>>),
      NoneEntry,
      DictEntry("nodomain", FALSE, <<>>),
      StrEntry("nonhttp", <<"ftp", "://", "a.com">>),
      StrEntry("nonetloc", <<"https", "://">>),
      StrEntry("valid", <<"a.com">>),
      StrEntry("valid", <<"http", "://", "b.com", "/about">>),
      DictEntry("valid", TRUE, <<"a.com">>) }

\* A variant that accepts any scheme.
NormalizeAnyScheme(entry) ==
    LET domain == IF entry.kind = "dict" /\ entry.hasDomain THEN entry.domain
                  ELSE IF entry.kind = "str" THEN entry.domain
                  ELSE <<>>
        parsed == UrlParse(IF "://" \notin Range(domain)
                           THEN <<"https", "://">> \o domain ELSE domain)
    IN  IF domain = <<>> \/ parsed.netloc = "" THEN [ok |-> FALSE, netloc |-> ""]
        ELSE [ok |-> TRUE, netloc |-> parsed.netloc]

\* _normalize_domain: the network location of the entry, or None.
NormalizeDomain(entry) ==
    LET domain == IF entry.kind = "dict" /\ entry.hasDomain THEN entry.domain
                  ELSE IF entry.kind = "str" THEN entry.domain
                  ELSE <<>>
        parsed == UrlParse(IF "://" \notin Range(domain)
                           THEN <<"https", "://">> \o domain ELSE domain)
    IN  IF domain = <<>> THEN [ok |-> FALSE, netloc |-> ""]
        ELSE IF parsed.scheme \notin {"http", "https"} \/ parsed.netloc = ""
        THEN [ok |-> FALSE, netloc |-> ""]
        ELSE [ok |-> TRUE, netloc |-> parsed.netloc]

\* base_url = f"https://{normalized}"
BaseUrl(normalized) == <<"https", "://", normalized>>

RssPage(links, ld, marker) ==
    [kind |-> "html", links |-> links, ld |-> ld, marker |-> marker]

\* A body of no bytes, and a body whose bytes decode to no text.
EmptyBody == [kind |-> "empty", links |-> <<>>, ld |-> <<>>, marker |-> ""]
GarbageBody == [kind |-> "garbage", links |-> <<>>, ld |-> <<>>, marker |-> ""]

\* The homepages: the <link> tags, the strings of the JSON-LD scripts and
\* the bot-challenge text of the page, if any.
RssPages ==
    { RssPage(<<>>, <<>>, ""),
      RssPage(<<Link(<<"alternate">>, "application/rss+xml", <<"/feed.xml">>)>>, <<>>, ""),
      RssPage(<<Link(<<>>, "application/atom+xml", <<"/atom.xml", "?q">>)>>, <<>>, ""),
      RssPage(<<Link(<<"alternate">>, "text/html", <<"/about">>)>>, <<>>, ""),
      RssPage(<<Link(<<>>, "application/rss+xml", <<"/feed.xml">>),
                Link(<<"Alternate">>, "", <<"/atom.xml">>)>>, <<<<"/feed">>>>, ""),
      RssPage(<<>>, <<>>, "captcha") }

Bodies == {EmptyBody, GarbageBody} \cup RssPages

\* What requests.get can meet for the homepage.
PlainOutcomes ==
    {[kind |-> "response", status |-> st, body |-> b, ctype |-> "text/html"] :
        st \in {200, 403}, b \in Bodies}
    \cup {[kind |-> "exception", status |-> 0, body |-> EmptyBody, ctype |-> ""]}

NoPlain == [kind |-> "none", status |-> 0, body |-> EmptyBody, ctype |-> ""]

NoGot == [body |-> EmptyBody, status |-> 0, ctype |-> ""]

\* _get_html: the content, status and content type of the response of
\* requests.get; an exception is logged and raised again.
GetHtml(plain) ==
    IF plain.kind = "exception"
    THEN [raised |-> TRUE, got |-> NoGot]
    ELSE [raised |-> FALSE,
          got |-> [body |-> plain.body, status |-> plain.status, ctype |-> plain.ctype]]

\* html_bytes.decode("utf-8", "ignore") if html_bytes else "": whether the
\* text is non-empty.
HasHtml(body) == body.kind = "html"

\* A variant that takes a body of no bytes for bytes.
HasBytesAlways(body) == TRUE

\* Whether html_bytes is non-empty.
HasBytes(body) == body.kind # "empty"

\* What a probe of _is_feed_url can meet.
ProbeOutcomes ==
    {[kind |-> "response", status |-> 200, ctype |-> ct] :
        ct \in {"application/rss+xml", "application/json", "text/xml", "text/html"}}
    \cup {[kind |-> "response", status |-> 404, ctype |-> "application/rss+xml"],
          [kind |-> "exception", status |-> 0, ctype |-> ""]}

\* _is_feed_url: the probe answers with a status below 400 and a content
\* type that starts with "application".
IsFeedUrl(o) ==
    /\ o.kind = "response"
    /\ o.status < 400
    /\ o.ctype \in {"application/rss+xml", "application/json", "application/atom+xml"}

\* The paths of a domain that may answer as a feed.
LivePaths == {<<"/feed.xml">>, <<"/atom.xml">>, <<"/feed">>}

LiveOutcome == [kind |-> "response", status |-> 200, ctype |-> "application/rss+xml"]

DeadOutcomes ==
    {[kind |-> "response", status |-> 200, ctype |-> "text/html"],
     [kind |-> "response", status |-> 200, ctype |-> "text/xml"],
     [kind |-> "response", status |-> 404, ctype |-> "application/rss+xml"],
     [kind |-> "exception", status |-> 0, ctype |-> ""]}

\* How a URL that is no feed answers: some paths with a page, some with
\* 404, the rest not at all.
DeadFor(url) ==
    CHOOSE o \in DeadOutcomes :
        IF url # <<>> /\ Last(url) \in {"/about", "/feed.json"}
        THEN o.kind = "response" /\ o.ctype = "text/html"
        ELSE IF url # <<>> /\ Last(url) \in {"/index.xml"}
        THEN o.kind = "response" /\ o.ctype = "text/xml"
        ELSE IF url # <<>> /\ Last(url) \in {"/rss", "/rss.xml", "/.rss"}
        THEN o.kind = "response" /\ o.status = 404
        ELSE o.kind = "exception"

\* The answers of a domain to probes: its live URLs answer as feeds, every
\* other URL answers dead.
NetOf(base, live) ==
    [live |-> {base \o p : p \in live} \cup {base \o p \o <<"?q">> : p \in live}]

NetAt(net, url) == IF url \in net.live THEN LiveOutcome ELSE DeadFor(url)

TypeIsFeed(type) ==
    Lower(type) \in {"application/rss+xml", "application/atom+xml", "application/feed+json"}

\* rel as BeautifulSoup gives it: the list of the words of the attribute;
\* (link.get("rel") or "").lower() raises on a list that is not empty.
BsRelRaises(l) == l.rel # <<>>

\* The candidates that _is_feed_url accepts, in order.
ProbeAll(cands, net) == SelectSeq(cands, LAMBDA c : IsFeedUrl(NetAt(net, c)))

\* The <link> part of _discover_with_bs.
BsLinks(base, page, net) ==
    LET Keep(l) == l.href # <<>> /\ TypeIsFeed(l.type)
        Join(l) == UrlJoin(base, l.href)
    IN  ProbeAll(MapSeq(SelectSeq(page.links, Keep), Join), net)

\* The JSON-LD part of _discover_with_bs: the strings that hold "feed".
BsJsonLd(base, page, net) ==
    LET Keep(h) == \E i \in 1..Len(h) : h[i] \in {"/feed", "/feed.xml", "/feed.json"}
        Join(h) == UrlJoin(base, h)
    IN  ProbeAll(MapSeq(SelectSeq(page.ld, Keep), Join), net)

\* _discover_with_bs: any exception gives the empty list.
DiscoverWithBs(base, page, net) ==
    IF \E i \in 1..Len(page.links) : BsRelRaises(page.links[i]) THEN <<>>
    ELSE BsLinks(base, page, net) \o BsJsonLd(base, page, net)

RelWords(l) == MapSeq(l.rel, Lower)

\* _FeedHTMLParser: the <link> tags with an href whose rel is "alternate" or
\* whose type is a feed type, probed with _is_feed_url.
HtmlParserLinks(base, page, net) ==
    LET Keep(l) == l.href # <<>> /\ (RelWords(l) = <<"alternate">> \/ TypeIsFeed(l.type))
        Join(l) == UrlJoin(base, l.href)
    IN  ProbeAll(MapSeq(SelectSeq(page.links, Keep), Join), net)

\* A variant of the list with "atom.xml" before "feed".
FallbackPathsSwapped ==
    << <<"atom.xml">>, <<"rss">>, <<"rss.xml">>, <<"feed">>, <<".rss">>, <<"feed.xml">>,
       <<"index.xml">>, <<"feeds/posts/default">>, <<"feed.json">> >>

FallbackPaths ==
    << <<"feed">>, <<"rss">>, <<"rss.xml">>, <<"atom.xml">>, <<".rss">>, <<"feed.xml">>,
       <<"index.xml">>, <<"feeds/posts/default">>, <<"feed.json">> >>

\* The network locations _normalize_domain gives for the entries.
Netlocs == {NormalizeDomain(e).netloc : e \in {x \in Entries : NormalizeDomain(x).ok}}

\* urljoin(base_url, path) for each of FALLBACK_PATHS, by network location.
FallbackCandidates ==
    [n \in Netlocs |-> MapSeq(FallbackPaths, LAMBDA p : UrlJoin(BaseUrl(n), p))]

\* _fallback_feed_endpoints: the joined default paths that _is_feed_url accepts.
FallbackFeedEndpoints(normalized, net) == ProbeAll(FallbackCandidates[normalized], net)

\* A variant that leaves the URL as it is.
StripNothing(url) == url

\* urlparse(url)._replace(query="", fragment="").geturl()
StripQueryFragment(url) == GetUrl([UrlParse(url) EXCEPT !.query = "", !.fragment = ""])

\* The loop without its test on seen: every normalized URL is appended.
UniqueAll(found, acc) == acc \o [i \in 1..Len(found) |-> StripQueryFragment(found[i])]

\* The loop that fills unique: each normalized URL once, first seen first.
RECURSIVE Unique(_, _)
Unique(found, acc) ==
    IF found = <<>> THEN acc
    ELSE LET norm == StripQueryFragment(Head(found))
         IN  Unique(Tail(found), IF norm \in Range(acc) THEN acc ELSE Append(acc, norm))

\* What feedfinder2.find_feeds can return for a domain, or "raise".
FinderOutcomes(base) ==
    {[raised |-> FALSE, feeds |-> f] :
        f \in {<<>>, <<base \o <<"/feed">>>>,
               <<base \o <<"/feed", "?q">>, base \o <<"/feed">>, base \o <<"/atom.xml">>>>}}
    \cup {[raised |-> TRUE, feeds |-> <<>>]}

\* feedfinder2.find_feeds was not called for the domain.
NoFinder == [called |-> FALSE, feeds |-> <<>>]

\* The dict with a new key put first.
DictSetFront(d, k, v) ==
    IF \E i \in 1..Len(d) : d[i].domain = k
    THEN [i \in 1..Len(d) |-> IF d[i].domain = k THEN [domain |-> k, urls |-> v] ELSE d[i]]
    ELSE <<[domain |-> k, urls |-> v]>> \o d

\* feeds[normalized] = unique, on a dict kept in insertion order.
DictSet(d, k, v) ==
    IF \E i \in 1..Len(d) : d[i].domain = k
    THEN [i \in 1..Len(d) |-> IF d[i].domain = k THEN [domain |-> k, urls |-> v] ELSE d[i]]
    ELSE Append(d, [domain |-> k, urls |-> v])

Keys(d) == {d[i].domain : i \in 1..Len(d)}

\* feeds[k], for a key k of the dict.
Lookup(d, k) == d[CHOOSE i \in 1..Len(d) : d[i].domain = k].urls

\* _save_raw_html: the file of the domain is written, over an older one.
SaveRawHtml(files, domain, body) ==
    {f \in files : f.domain # domain} \cup {[domain |-> domain, body |-> body]}



\* The default paths probed whatever was found.
NeedsFallbackAlways(found) == TRUE

\* "if not found: found = _fallback_feed_endpoints(base_url)"
NeedsFallback(found) == found = <<>>

\* The "if html" part without the result of feedfinder2.
InHtmlNoFinder(hasHtml, ff, extra, parsed) ==
    IF ~hasHtml THEN [found |-> <<>>, links |-> <<>>, calls |-> <<>>]
    ELSE IF extra # <<>>
    THEN [found |-> extra, links |-> extra, calls |-> <<"feedfinder2", "link_scan">>]
    ELSE [found |-> parsed, links |-> parsed,
          calls |-> <<"feedfinder2", "link_scan", "html_parser">>]

\* The part of the loop body under "if html": feedfinder2, then the <link>
\* and JSON-LD scan, then the HTML parser when both gave nothing.
InHtml(hasHtml, ff, extra, parsed) ==
    IF ~hasHtml THEN [found |-> <<>>, links |-> <<>>, calls |-> <<>>]
    ELSE IF ff \o extra # <<>>
    THEN [found |-> ff \o extra, links |-> extra, calls |-> <<"feedfinder2", "link_scan">>]
    ELSE [found |-> parsed, links |-> parsed,
          calls |-> <<"feedfinder2", "link_scan", "html_parser">>]

\* The rest of the loop body with the file written whenever there are bytes.
AfterHtmlSaving(h, fallback, hasBytes) ==
    LET found == IF h.found = <<>> THEN fallback ELSE h.found
    IN  [found |-> found, links |-> h.links, save |-> hasBytes,
         calls |-> h.calls \o (IF h.found = <<>> THEN <<"fallback">> ELSE <<>>)
                   \o (IF hasBytes THEN <<"save_raw_html">> ELSE <<>>)]

\* The rest of the loop body: the default paths when nothing was found, and
\* the diagnostics file when nothing was found at all and there are bytes.
AfterHtml(h, fallback, hasBytes) ==
    IF NeedsFallback(h.found)
    THEN [found |-> fallback, links |-> h.links,
          save  |-> fallback = <<>> /\ hasBytes,
          calls |-> h.calls \o <<"fallback">>
                    \o (IF fallback = <<>> /\ hasBytes THEN <<"save_raw_html">> ELSE <<>>)]
    ELSE [found |-> h.found, links |-> h.links, save |-> FALSE, calls |-> h.calls]

\* Everything discover_feeds does for a domain once the homepage is there.
Discover(normalized, body, finder, net) ==
    CHOOSE r \in
        {AfterHtml(h, fb, HasBytes(body)) :
            h \in {InHtml(HasHtml(body), IF finder.raised THEN <<>> ELSE finder.feeds,
                          DiscoverWithBs(BaseUrl(normalized), body, net),
                          HtmlParserLinks(BaseUrl(normalized), body, net))},
            fb \in {FallbackFeedEndpoints(normalized, net)}} : TRUE

RssInit ==
    /\ rPc = "idle"
    /\ rCount = 0
    /\ rEntry = NoneEntry
    /\ rNorm = ""
    /\ rPlain = NoPlain
    /\ rGot = NoGot
    /\ rBrowser = 0
    /\ rCalls = <<>>
    /\ rLinkFeeds = <<>>
    /\ rFound = <<>>
    /\ rFeeds = <<>>
    /\ rSaved = {}
    /\ rValid = {}
    /\ rSkipped = 0
    /\ rLive = {}
    /\ rFinder = NoFinder

\* discover_feeds(domains) is called: feeds = {}.
RssCall ==
    /\ rPc = "idle"
    /\ rPc' = "next"
    /\ UNCHANGED <<rCount, rEntry, rNorm, rPlain, rGot, rBrowser, rCalls, rLinkFeeds,
                   rFound, rFeeds, rSaved, rValid, rSkipped, rLive, rFinder>>
    /\ UNCHANGED <<httpVars, browserVars, parseVars, fetchVars, cliVars, searchVars, extractVars, orderVars, crawlVars>>

\* "for entry in domains": the next entry is normalized; a rejected entry
\* is skipped with "continue".
RssTake ==
    /\ rPc = "next"
    /\ rCount < MaxDomains
    /\ \E entry \in Entries :
        \E n \in {NormalizeDomain(entry)} :
            /\ rEntry' = entry
            /\ rNorm' = n.netloc
            /\ rPc' = IF n.ok THEN "fetching" ELSE "next"
            /\ rValid' = IF n.ok THEN rValid \cup {n.netloc} ELSE rValid
            /\ rSkipped' = IF n.ok THEN rSkipped ELSE rSkipped + 1
    /\ rCount' = rCount + 1
    /\ rPlain' = NoPlain
    /\ rGot' = NoGot
    /\ rBrowser' = 0
    /\ rCalls' = <<>>
    /\ rLinkFeeds' = <<>>
    /\ rFound' = <<>>
    /\ rLive' = {}
    /\ rFinder' = NoFinder
    /\ UNCHANGED <<rFeeds, rSaved>>
    /\ UNCHANGED <<httpVars, browserVars, parseVars, fetchVars, cliVars, searchVars, extractVars, orderVars, crawlVars>>

\* html_bytes, _, _ = _get_html(base_url)
RssFetch ==
    /\ rPc = "fetching"
    /\ \E plain \in PlainOutcomes :
        \E r \in {GetHtml(plain)} :
            /\ rPlain' = plain
            /\ rGot' = r.got
            /\ rPc' = IF r.raised THEN "raised" ELSE "discovering"
    /\ rCalls' = Append(rCalls, "get_html")
    /\ UNCHANGED <<rCount, rEntry, rNorm, rBrowser, rLinkFeeds, rFound, rFeeds, rSaved,
                   rValid, rSkipped, rLive, rFinder>>
    /\ UNCHANGED <<httpVars, browserVars, parseVars, fetchVars, cliVars, searchVars, extractVars, orderVars, crawlVars>>

\* The rest of the loop body: the strategies, the diagnostics file, the
\* deduplicated entry of feeds.
RssDiscover ==
    /\ rPc = "discovering"
    /\ \E finder \in FinderOutcomes(BaseUrl(rNorm)), live \in SUBSET LivePaths :
        \E d \in {Discover(rNorm, rGot.body, finder, NetOf(BaseUrl(rNorm), live))} :
            /\ rLive' = live
            /\ rFinder' = IF HasHtml(rGot.body)
                           THEN [called |-> TRUE, feeds |-> finder.feeds]
                           ELSE NoFinder
            /\ rCalls' = rCalls \o d.calls
            /\ rLinkFeeds' = d.links
            /\ rFound' = d.found
            /\ rSaved' = IF d.save THEN SaveRawHtml(rSaved, rNorm, rGot.body) ELSE rSaved
            /\ rFeeds' = IF d.found # <<>> THEN DictSet(rFeeds, rNorm, Unique(d.found, <<>>))
                         ELSE rFeeds
    /\ rPc' = "next"
    /\ UNCHANGED <<rCount, rEntry, rNorm, rPlain, rGot, rBrowser, rValid, rSkipped>>
    /\ UNCHANGED <<httpVars, browserVars, parseVars, fetchVars, cliVars, searchVars, extractVars, orderVars, crawlVars>>

\* The input is exhausted: "return feeds".
RssReturn ==
    /\ rPc = "next"
    /\ rPc' = "returned"
    /\ UNCHANGED <<rCount, rEntry, rNorm, rPlain, rGot, rBrowser, rCalls, rLinkFeeds,
                   rFound, rFeeds, rSaved, rValid, rSkipped, rLive, rFinder>>
    /\ UNCHANGED <<httpVars, browserVars, parseVars, fetchVars, cliVars, searchVars, extractVars, orderVars, crawlVars>>

RssNext ==
    \/ RssCall
    \/ RssTake
    \/ RssFetch
    \/ RssDiscover
    \/ RssReturn

\* ---------------------------------------------------- rss.fetch_entries

\* The keys a feed_map can have, in insertion order.
FeedDomains == <<"a.example", "b.example">>

\* The URL lists each domain can map to: none, one, two, the same one
\* twice and, for the first domain, three.
FeedLists ==
    << {<<>>, <<"feed">>, <<"feed", "atom.xml">>, <<"feed", "feed">>,
        <<"feed", "atom.xml", "rss">>},
       {<<>>, <<"feed">>, <<"feed", "atom.xml">>, <<"feed", "feed">>} >>

\* feed_map: a dict from domains to URL lists.
FeedMaps ==
    UNION {{[i \in 1..n |-> [domain |-> FeedDomains[i], urls |-> l[i]]] :
                l \in {f \in [1..n -> UNION {FeedLists[i] : i \in 1..n}] :
                        \A i \in 1..n : f[i] \in FeedLists[i]}} :
           n \in 0..Len(FeedDomains)}

\* The values of limit.
Limits == 0..MaxLimit

\* What feedparser.parse(url) does: it raises, or returns an object with
\* no entries at all, or one with a list of n entries.
ParseResults ==
    {[kind |-> "raises", n |-> 0], [kind |-> "none", n |-> 0]}
        \cup {[kind |-> "entries", n |-> k] : k \in 0..MaxEntries}

\* The entries of a parsed feed; None when it has none.
EntriesOf(url, o) ==
    IF o.kind = "entries" THEN [i \in 1..o.n |-> [url |-> url, k |-> i]] ELSE <<>>

\* s[:n], for n >= 0.
Take(s, n) == SubSeq(s, 1, IF n < Len(s) THEN n ELSE Len(s))

\* A variant that leaves the list without one of its URLs.
ShufflesDropLast(urls) ==
    {[i \in 1..(Len(urls) - 1) |-> urls[f[i]]] :
        f \in {g \in [1..Len(urls) -> 1..Len(urls)] :
                \A i, j \in 1..Len(urls) : g[i] = g[j] => i = j}}

\* random.shuffle(urls): the orders the list can be left in.
Shuffles(urls) ==
    {[i \in 1..Len(urls) |-> urls[f[i]]] :
        f \in {g \in [1..Len(urls) -> 1..Len(urls)] :
                \A i, j \in 1..Len(urls) : g[i] = g[j] => i = j}}



\* A variant of the loop that never breaks.
BreaksNever(collected, limit) == FALSE

\* "if len(collected) >= limit: break"
Breaks(collected, limit) == Len(collected) >= limit

\* A variant in which a parse that raises loses what was collected.
AfterParseDropping(collected, url, o, limit) ==
    IF o.kind = "raises" THEN <<>> ELSE collected \o Take(EntriesOf(url, o), limit)

\* collected after the body of the try: untouched when parse raises or
\* gives no entries, else extended by entries[:limit].
AfterParse(collected, url, o, limit) ==
    IF o.kind = "raises" \/ EntriesOf(url, o) = <<>>
    THEN collected
    ELSE collected \o Take(EntriesOf(url, o), limit)

\* A variant that leaves out a domain with no entries.
ResultSetNonEmpty(d, k, v) ==
    IF v = <<>> THEN d ELSE Append(d, [domain |-> k, entries |-> v])

\* results[domain] = value
ResultSet(d, k, v) ==
    IF \E i \in 1..Len(d) : d[i].domain = k
    THEN [i \in 1..Len(d) |-> IF d[i].domain = k THEN [domain |-> k, entries |-> v] ELSE d[i]]
    ELSE Append(d, [domain |-> k, entries |-> v])

FetchInit ==
    /\ fPc = "idle"
    /\ fMap = <<>>
    /\ fInput = <<>>
    /\ fLimit = 0
    /\ fAt = 0
    /\ fIdx = 0
    /\ fCollected = <<>>
    /\ fParsed = <<>>
    /\ fResults = <<>>

\* fetch_entries(feed_map, limit) is called: results = {}.
FetchCall ==
    /\ fPc = "idle"
    /\ \E m \in FeedMaps, limit \in Limits :
        /\ fMap' = m
        /\ fInput' = m
        /\ fLimit' = limit
    /\ fPc' = "domain"
    /\ UNCHANGED <<fAt, fIdx, fCollected, fParsed, fResults>>
    /\ UNCHANGED <<httpVars, browserVars, parseVars, rssVars, cliVars, searchVars, extractVars, orderVars, crawlVars>>

\* "for domain, urls in feed_map.items()": collected = [] and the URL list
\* is shuffled in place.
FetchDomain ==
    /\ fPc = "domain"
    /\ fAt < Len(fMap)
    /\ fAt' = fAt + 1
    /\ \E s \in Shuffles(fMap[fAt + 1].urls) :
        /\ fMap' = [fMap EXCEPT ![fAt + 1].urls = s]
        /\ fPc' = IF s = <<>> THEN "store" ELSE "url"
    /\ fIdx' = 0
    /\ fCollected' = <<>>
    /\ UNCHANGED <<fLimit, fParsed, fResults>>
    /\ UNCHANGED fInput
    /\ UNCHANGED <<httpVars, browserVars, parseVars, rssVars, cliVars, searchVars, extractVars, orderVars, crawlVars>>

\* "for url in urls": the URL is parsed; a raise is logged; entries, if
\* any, are added up to limit of them, and the loop breaks once collected
\* holds limit entries.
FetchParse ==
    /\ fPc = "url"
    /\ \E o \in ParseResults, url \in {fMap[fAt].urls[fIdx + 1]} :
        \E c \in {AfterParse(fCollected, url, o, fLimit)} :
            /\ fCollected' = c
            /\ fParsed' = Append(fParsed, [at |-> fAt, url |-> url,
                                           before |-> Len(fCollected),
                                           outcome |-> o.kind, n |-> o.n])
            /\ fPc' = IF \/ (EntriesOf(url, o) # <<>> /\ Breaks(c, fLimit))
                         \/ fIdx + 1 = Len(fMap[fAt].urls)
                      THEN "store" ELSE "url"
    /\ fIdx' = fIdx + 1
    /\ UNCHANGED <<fMap, fLimit, fAt, fResults>>
    /\ UNCHANGED fInput
    /\ UNCHANGED <<httpVars, browserVars, parseVars, rssVars, cliVars, searchVars, extractVars, orderVars, crawlVars>>

\* "results[domain] = collected[:limit]"
FetchStore ==
    /\ fPc = "store"
    /\ fResults' = ResultSet(fResults, fMap[fAt].domain, Take(fCollected, fLimit))
    /\ fPc' = "domain"
    /\ UNCHANGED <<fMap, fLimit, fAt, fIdx, fCollected, fParsed>>
    /\ UNCHANGED fInput
    /\ UNCHANGED <<httpVars, browserVars, parseVars, rssVars, cliVars, searchVars, extractVars, orderVars, crawlVars>>

\* "return results"
FetchReturn ==
    /\ fPc = "domain"
    /\ fAt = Len(fMap)
    /\ fPc' = "returned"
    /\ UNCHANGED <<fMap, fLimit, fAt, fIdx, fCollected, fParsed, fResults>>
    /\ UNCHANGED fInput
    /\ UNCHANGED <<httpVars, browserVars, parseVars, rssVars, cliVars, searchVars, extractVars, orderVars, crawlVars>>

FetchNext ==
    \/ FetchCall
    \/ FetchDomain
    \/ FetchParse
    \/ FetchStore
    \/ FetchReturn

\* ------------------------------------------------- cli.run and rss.run

\* The lists of domains the search stage and the filters leave.
DomainLists ==
    {<<>>, <<"a.example">>, <<"b.example">>, <<"a.example", "b.example">>,
     <<"b.example", "a.example">>}

\* The URL lists discover_feeds stores for a domain: never empty.
StoredLists == {<<"feed">>, <<"feed", "atom.xml">>}

\* The dicts discover_feeds(domains) can return: a key for some of the
\* domains, in input order.
DiscoverResults(domains) ==
    {[i \in 1..Len(ks) |-> [domain |-> ks[i], urls |-> l[ks[i]]]] :
        ks \in {SelectSeq(domains, LAMBDA d : d \in K) : K \in SUBSET Range(domains)},
        l \in [Range(domains) -> StoredLists]}

\* The dicts fetch_entries(feeds) can return: the keys of feeds, each with
\* a list of entries.
FetchResults(feeds) ==
    {[i \in 1..Len(feeds) |->
        [domain |-> feeds[i].domain,
         entries |-> [k \in 1..n[i] |-> [domain |-> feeds[i].domain, k |-> k]]]] :
        n \in [1..Len(feeds) -> 0..MaxEntries]}

\* The stages after the feed JSON, in the order of the calls.
Downstream == <<"crawl", "new_data", "extract", "duckdb_io", "export_csv">>

\* A variant of the test that takes every dict for non-empty.
NotDictNever(d) == FALSE

\* "not feeds", for a dict.
NotDict(d) == d = <<>>

\* A variant of the check on entries that lets empty lists through.
AnyEmptyIgnored(entries) == FALSE

\* "any(len(v) == 0 for v in entries.values())"
AnyEmpty(entries) == \E i \in 1..Len(entries) : Len(entries[i].entries) = 0

CliInit ==
    /\ cPc = "start"
    /\ cDomains = <<>>
    /\ cFeeds = <<>>
    /\ cEntries = <<>>
    /\ cRun = "none"
    /\ cCalls = <<>>
    /\ cExit = "none"

\* cli.run: the settings are loaded, the search stage runs and the
\* whitelist and blacklist are applied.
CliSearch ==
    /\ cPc = "start"
    /\ \E domains \in DomainLists : cDomains' = domains
    /\ cCalls' = Append(cCalls, "search")
    /\ cPc' = "discover"
    /\ UNCHANGED <<cFeeds, cEntries, cRun, cExit>>
    /\ UNCHANGED <<httpVars, browserVars, parseVars, rssVars, fetchVars, searchVars, extractVars, orderVars, crawlVars>>

\* rss.run: discover_feeds(domains) raises, or returns feeds; with no
\* feeds run raises ValueError.
RunDiscover ==
    /\ cPc = "discover"
    /\ cCalls' = Append(cCalls, "discover_feeds")
    /\ \/ /\ cDomains # <<>>
          /\ cRun' = "raised"
          /\ cExit' = "RequestException"
          /\ cPc' = "done"
          /\ UNCHANGED cFeeds
       \/ \E feeds \in DiscoverResults(cDomains) :
            /\ cFeeds' = feeds
            /\ cRun' = IF NotDict(feeds) THEN "raised" ELSE "none"
            /\ cExit' = IF NotDict(feeds) THEN "ValueError" ELSE "none"
            /\ cPc' = IF NotDict(feeds) THEN "done" ELSE "fetch"
    /\ UNCHANGED <<cDomains, cEntries>>
    /\ UNCHANGED <<httpVars, browserVars, parseVars, rssVars, fetchVars, searchVars, extractVars, orderVars, crawlVars>>

\* rss.run: fetch_entries(feeds) returns entries; with an empty list among
\* them run raises ValueError, else it returns entries.
RunFetch ==
    /\ cPc = "fetch"
    /\ cCalls' = Append(cCalls, "fetch_entries")
    /\ \E entries \in FetchResults(cFeeds) :
        /\ cEntries' = entries
        /\ cRun' = IF AnyEmpty(entries) THEN "raised" ELSE "returned"
        /\ cExit' = IF AnyEmpty(entries) THEN "ValueError" ELSE "none"
        /\ cPc' = IF AnyEmpty(entries) THEN "done" ELSE "save"
    /\ UNCHANGED <<cDomains, cFeeds>>
    /\ UNCHANGED <<httpVars, browserVars, parseVars, rssVars, fetchVars, searchVars, extractVars, orderVars, crawlVars>>

\* cli.run: what rss.run returned is tested; when empty the run ends with
\* SystemExit(1), else it is written to discovered_feeds.json.
CliSave ==
    /\ cPc = "save"
    /\ IF NotDict(cEntries)
       THEN /\ cExit' = "SystemExit"
            /\ cPc' = "done"
            /\ UNCHANGED cCalls
       ELSE /\ cCalls' = Append(cCalls, "write_json")
            /\ cPc' = "stages"
            /\ UNCHANGED cExit
    /\ UNCHANGED <<cDomains, cFeeds, cEntries, cRun>>
    /\ UNCHANGED <<httpVars, browserVars, parseVars, rssVars, fetchVars, searchVars, extractVars, orderVars, crawlVars>>

\* cli.run: the next downstream stage is invoked; it returns or raises.
CliStage ==
    /\ cPc = "stages"
    /\ \E stage \in {Downstream[Len(cCalls) - 3]}, raises \in BOOLEAN :
        /\ cCalls' = Append(cCalls, stage)
        /\ cExit' = IF raises THEN "Exception"
                    ELSE IF stage = Last(Downstream) THEN "ok" ELSE "none"
        /\ cPc' = IF raises \/ stage = Last(Downstream) THEN "done" ELSE "stages"
    /\ UNCHANGED <<cDomains, cFeeds, cEntries, cRun>>
    /\ UNCHANGED <<httpVars, browserVars, parseVars, rssVars, fetchVars, searchVars, extractVars, orderVars, crawlVars>>

CliNext ==
    \/ CliSearch
    \/ RunDiscover
    \/ RunFetch
    \/ CliSave
    \/ CliStage

\* ------------------------------------------ search: _search_google

\* MAX_RETRIES, MAX_CONSECUTIVE: the defaults of CSE_RETRIES and
\* CSE_MAX_CONSECUTIVE.
MaxRetries == 3
MaxConsecutive == 5

\* What requests.get and the response do: the request raises, or the
\* status is 429, or raise_for_status raises, or resp.json() is a payload.
SearchLink(sub, root) == [link |-> TRUE, sub |-> sub, root |-> root]
NoLink == [link |-> FALSE, sub |-> "", root |-> ""]
Payloads ==
    {<<>>,
     <<SearchLink("", "example.com"), SearchLink("blog", "example.com"),
       SearchLink("", "other.com")>>,
     <<NoLink, SearchLink("www", "other.com")>>}
SearchOutcomes ==
    {[kind |-> "exception", items |-> <<>>], [kind |-> "429", items |-> <<>>],
     [kind |-> "error-status", items |-> <<>>]}
        \cup {[kind |-> "ok", items |-> p] : p \in Payloads}

\* A list without the later occurrences of its elements.
Dedup(s) ==
    LET idx == SelectSeq([i \in 1..Len(s) |-> i],
                         LAMBDA i : \A j \in 1..(i - 1) : s[j] # s[i])
    IN  [k \in 1..Len(idx) |-> s[idx[k]]]

\* The root domains of the items that have a link, each once, in order.
RootDomains(items) ==
    Dedup([i \in 1..Len(SelectSeq(items, LAMBDA it : it.link)) |->
                SelectSeq(items, LAMBDA it : it.link)[i].root])

\* What _search_bing and _search_duckduckgo return: [] when the engine is
\* not configured or fails, else its domains.
OtherEngine == {<<>>, <<"example.com", "third.org">>}

\* The three lists one after another, with their repetitions.
SearchSitesAll(google, bing, ddg) == google \o bing \o ddg

\* search_sites: the three lists, one after another, each domain once.
SearchSites(google, bing, ddg) == Dedup(google \o bing \o ddg)

\* results.append({"domain": d, "timestamp": ts}) for each d of domains.
Stamped(domains, ts) == [i \in 1..Len(domains) |-> [domain |-> domains[i], timestamp |-> ts]]



\* "deduped[item['domain']] = item" for each item, then list(deduped.values()):
\* a key keeps the place of its first item and the value of its last.
DedupedValues(results) ==
    LET first == SelectSeq([i \in 1..Len(results) |-> i],
                           LAMBDA i : \A j \in 1..(i - 1) :
                                        results[j].domain # results[i].domain)
        last(d) == CHOOSE i \in 1..Len(results) :
                        /\ results[i].domain = d
                        /\ \A j \in (i + 1)..Len(results) : results[j].domain # d
    IN  [k \in 1..Len(first) |-> results[last(results[first[k]].domain)]]

\* A variant in which the exhausted loop raises.
ForElseRaises == "raised"

\* "for ... else: return []": how the call ends after MAX_RETRIES 429s.
ForElse == "returned"

SearchInit ==
    /\ sPc = "idle"
    /\ sCount = 0
    /\ sStreak = 0
    /\ sAtCall = 0
    /\ sAttempt = 0
    /\ sCalls = 0
    /\ sGoogle = <<>>
    /\ sOthers = <<<<>>, <<>>>>
    /\ sResult = <<>>
    /\ sRunPc = "next"
    /\ sNow = 0
    /\ sRun = <<>>
    /\ sOut = <<>>

\* "for q in queries": search_sites(q) calls _search_google(q): with the
\* breaker tripped it returns [] at once and the other engines are asked.
SearchCall ==
    /\ sPc \in {"idle", "returned", "raised"}
    /\ sRunPc = "next"
    /\ sRunPc' = "searching"
    /\ sCalls < MaxCalls
    /\ sCalls' = sCalls + 1
    /\ sAtCall' = sStreak
    /\ sAttempt' = 0
    /\ sGoogle' = <<>>
    /\ \E bing \in OtherEngine, ddg \in OtherEngine :
        /\ sOthers' = <<bing, ddg>>
        /\ IF sCount >= MaxConsecutive
           THEN /\ sPc' = "returned"
                /\ sResult' = SearchSites(<<>>, bing, ddg)
           ELSE /\ sPc' = "loop"
                /\ sResult' = <<>>
    /\ UNCHANGED <<sCount, sStreak, sNow, sRun, sOut>>
    /\ UNCHANGED <<httpVars, browserVars, parseVars, rssVars, fetchVars, cliVars, extractVars, orderVars, crawlVars>>

\* "for attempt in range(MAX_RETRIES)": one requests.get. A 429 sets the
\* counter and goes on, and after the last attempt the call returns [];
\* any other response resets the counter and ends the loop, by a raise or
\* with the domains of the payload.
SearchAttempt ==
    /\ sPc = "loop"
    /\ sAttempt < MaxRetries
    /\ sAttempt' = sAttempt + 1
    /\ \E o \in SearchOutcomes :
        /\ sCount' = IF o.kind = "exception" THEN sCount
                     ELSE IF o.kind = "429" THEN 1 ELSE 0
        /\ sStreak' = IF o.kind = "exception" THEN sStreak
                      ELSE IF o.kind = "429" THEN sStreak + 1 ELSE 0
        /\ sPc' = IF o.kind \in {"exception", "error-status"} THEN "raised"
                  ELSE IF o.kind = "ok" THEN "returned"
                  ELSE IF sAttempt + 1 < MaxRetries THEN "loop"
                  ELSE ForElse
        /\ sGoogle' = IF o.kind = "ok" THEN RootDomains(o.items) ELSE <<>>
        /\ sResult' = IF o.kind = "ok"
                      THEN SearchSites(RootDomains(o.items), sOthers[1], sOthers[2])
                      ELSE IF o.kind = "429" /\ sAttempt + 1 = MaxRetries
                                /\ ForElse = "returned"
                      THEN SearchSites(<<>>, sOthers[1], sOthers[2])
                      ELSE <<>>
    /\ UNCHANGED <<sAtCall, sCalls, sOthers, sRunPc, sNow, sRun, sOut>>
    /\ UNCHANGED <<httpVars, browserVars, parseVars, rssVars, fetchVars, cliVars, extractVars, orderVars, crawlVars>>

\* The rest of the loop body of run: an exception of search_sites gives
\* domains = []; one record with the timestamp of now for each domain.
SearchCollect ==
    /\ sRunPc = "searching"
    /\ sPc \in {"returned", "raised"}
    /\ \E ts \in {sNow, sNow + 1} :
        /\ sNow' = ts
        /\ sRun' = sRun \o Stamped(IF sPc = "raised" THEN <<>> ELSE sResult, ts)
    /\ sRunPc' = "next"
    /\ UNCHANGED <<sPc, sCount, sStreak, sAtCall, sAttempt, sCalls, sGoogle, sOthers,
                   sResult, sOut>>
    /\ UNCHANGED <<httpVars, browserVars, parseVars, rssVars, fetchVars, cliVars, extractVars, orderVars, crawlVars>>

\* The queries are exhausted: run returns the values of deduped.
SearchRunReturn ==
    /\ sRunPc = "next"
    /\ sRunPc' = "returned"
    /\ sOut' = DedupedValues(sRun)
    /\ UNCHANGED <<sPc, sCount, sStreak, sAtCall, sAttempt, sCalls, sGoogle, sOthers,
                   sResult, sNow, sRun>>
    /\ UNCHANGED <<httpVars, browserVars, parseVars, rssVars, fetchVars, cliVars, extractVars, orderVars, crawlVars>>

SearchNext ==
    \/ SearchCall
    \/ SearchAttempt
    \/ SearchCollect
    \/ SearchRunReturn

\* ------------------------------------------------------- extract.parse

\* Texts are sequences of characters; None is a value apart from them.
TextChars == {"1", "0", ".", ",", " ", "m", "M", "x"}
Whitespace == {" "}
NoneValue == <<"None">>

\* The title of scenario D.
Azzam ==
    <<"A", "z", "z", "a", "m", " ", "1", "8", "0", "m", " ", "l", "u", "x", "u",
      "r", "y", " ", "y", "a", "c", "h", "t">>

\* The number of characters of t from position i on that are in S.
RECURSIVE RunLen(_, _, _)
RunLen(t, i, S) ==
    IF i > Len(t) \/ t[i] \notin S THEN 0 ELSE 1 + RunLen(t, i + 1, S)

\* str.strip()
Strip(t) ==
    LET keep == {i \in 1..Len(t) : t[i] \notin Whitespace}
    IN  IF keep = {} THEN <<>>
        ELSE SubSeq(t, CHOOSE i \in keep : \A j \in keep : i <= j,
                       CHOOSE i \in keep : \A j \in keep : i >= j)

\* A variant that leaves the commas in.
KeepCommas(t) == t

\* text.replace(",", "")
RemoveCommas(t) == SelectSeq(t, LAMBDA c : c # ",")

\* _LENGTH_RE tried at position i: the position group 1 ends at, or 0 when
\* the pattern does not match there. \d+ and the optional fraction take
\* all they can; the fraction is given up when the rest fails with it.
GroupEndAt(t, i) ==
    LET a == RunLen(t, i, Digits)
        j == i + a
        b == IF j <= Len(t) /\ t[j] = "." THEN RunLen(t, j + 1, Digits) ELSE 0
        EndsM(k) == /\ k + RunLen(t, k, Whitespace) <= Len(t)
                    /\ t[k + RunLen(t, k, Whitespace)] \in {"m", "M"}
    IN  IF a = 0 THEN 0
        ELSE IF b >= 1 /\ EndsM(j + 1 + b) THEN j + b
        ELSE IF EndsM(j) THEN j - 1
        ELSE 0

\* float(): the integer part and the fraction digits without trailing
\* zeros.
NoLength == [some |-> FALSE, whole |-> 0, frac |-> <<>>]
Float(g) ==
    LET a == RunLen(g, 1, Digits)
        f == SubSeq(g, a + 2, Len(g))
        nz == {i \in 1..Len(f) : f[i] # "0"}
    IN  [some |-> TRUE, whole |-> DigitsVal(SubSeq(g, 1, a)),
         frac |-> IF nz = {} THEN <<>>
                  ELSE SubSeq(f, 1, CHOOSE i \in nz : \A k \in nz : i >= k)]

\* _parse_length: the number of the leftmost match, or None.
ParseLength(text) ==
    LET t == RemoveCommas(text)
        starts == {i \in 1..Len(t) : GroupEndAt(t, i) > 0}
        first == CHOOSE i \in starts : \A k \in starts : i <= k
    IN  IF starts = {} THEN NoLength ELSE Float(SubSeq(t, first, GroupEndAt(t, first)))

\* A variant that carries only the link over.
CarriedKeysLinkOnly == {"link"}

\* The keys parse_entry carries over.
CarriedKeys == {"link", "published", "summary"}

\* 'entry.get(key) or ""'
GetOrEmpty(entry, key) ==
    IF key \in DOMAIN entry /\ entry[key] # NoneValue THEN entry[key] ELSE <<>>

\* parse_entry
ParseEntry(entry) ==
    LET title == Strip(GetOrEmpty(entry, "title"))
        length == ParseLength(title \o <<" ">> \o GetOrEmpty(entry, "summary"))
    IN  [k \in {"name", "length_m"} \cup (CarriedKeys \cap DOMAIN entry) |->
            IF k = "name" THEN title
            ELSE IF k = "length_m" THEN length
            ELSE entry[k]]

\* The entries parse_entry is called with: every short title alone, and
\* entries with some of the keys.
TitleEntries == {[k \in {"title"} |-> t] : t \in SeqsUpTo(TextChars, MaxTextLen)}
KeyEntries ==
    {[k \in K |-> CASE k = "title" -> Azzam
                    [] k = "summary" -> v
                    [] k = "link" -> <<"x", ".", "m">>
                    [] k = "published" -> <<"1", "0", "1", "8">>
                    [] OTHER -> <<"x">>] :
        K \in SUBSET {"title", "summary", "link", "published", "author"},
        v \in {NoneValue, <<>>, <<"1", ",", "0", " ", "M">>}}
EntryPool ==
    {[k \in {"title"} |-> Azzam],
     [k \in {"title", "summary"} |-> IF k = "title" THEN <<" ", "x", " ">>
                                                     ELSE <<"1", ".", "0", "m">>],
     [k \in {"link"} |-> <<"x">>]}

\* The mappings run is called with: up to two domains with up to two
\* entries each.
ExtractInputs ==
    UNION {{[i \in 1..n |-> [domain |-> FeedDomains[i], items |-> l[i]]] :
                l \in [1..n -> SeqsUpTo(EntryPool, 2)]} : n \in 0..Len(FeedDomains)}

\* A variant that puts the new record first.
AddRecordFirst(records, r) == <<r>> \o records

\* records.append(r)
AddRecord(records, r) == Append(records, r)

ExtractInit ==
    /\ xPc = "idle"
    /\ xEntry = <<>>
    /\ xRecord = <<>>
    /\ xInput = <<>>
    /\ xDom = 0
    /\ xItem = 0
    /\ xRecords = <<>>

\* parse_entry(entry)
ExtractEntry ==
    /\ xPc = "idle"
    /\ \E entry \in TitleEntries \cup KeyEntries :
        /\ xEntry' = entry
        /\ xRecord' = ParseEntry(entry)
    /\ xPc' = "parsed"
    /\ UNCHANGED <<xInput, xDom, xItem, xRecords>>
    /\ UNCHANGED <<httpVars, browserVars, parseVars, rssVars, fetchVars, cliVars, searchVars, orderVars, crawlVars>>

\* run(entries) is called: records = [].
ExtractRun ==
    /\ xPc = "idle"
    /\ \E entries \in ExtractInputs : xInput' = entries
    /\ xPc' = "running"
    /\ UNCHANGED <<xEntry, xRecord, xDom, xItem, xRecords>>
    /\ UNCHANGED <<httpVars, browserVars, parseVars, rssVars, fetchVars, cliVars, searchVars, orderVars, crawlVars>>

\* "for items in entries.values()": the next value.
ExtractItems ==
    /\ xPc = "running"
    /\ IF xDom = 0 THEN TRUE ELSE xItem = Len(xInput[xDom].items)
    /\ xDom < Len(xInput)
    /\ xDom' = xDom + 1
    /\ xItem' = 0
    /\ UNCHANGED <<xPc, xEntry, xRecord, xInput, xRecords>>
    /\ UNCHANGED <<httpVars, browserVars, parseVars, rssVars, fetchVars, cliVars, searchVars, orderVars, crawlVars>>

\* "for e in items: records.append(parse_entry(e))"
ExtractRecord ==
    /\ xPc = "running"
    /\ xDom >= 1
    /\ xItem < Len(xInput[xDom].items)
    /\ xItem' = xItem + 1
    /\ xRecords' = AddRecord(xRecords, ParseEntry(xInput[xDom].items[xItem + 1]))
    /\ UNCHANGED <<xPc, xEntry, xRecord, xInput, xDom>>
    /\ UNCHANGED <<httpVars, browserVars, parseVars, rssVars, fetchVars, cliVars, searchVars, orderVars, crawlVars>>

\* "return records"
ExtractReturn ==
    /\ xPc = "running"
    /\ xDom = Len(xInput)
    /\ IF xDom = 0 THEN TRUE ELSE xItem = Len(xInput[xDom].items)
    /\ xPc' = "returned"
    /\ UNCHANGED <<xEntry, xRecord, xInput, xDom, xItem, xRecords>>
    /\ UNCHANGED <<httpVars, browserVars, parseVars, rssVars, fetchVars, cliVars, searchVars, orderVars, crawlVars>>

ExtractNext ==
    \/ ExtractEntry
    \/ ExtractRun
    \/ ExtractItems
    \/ ExtractRecord
    \/ ExtractReturn

\* ------------------------------------- rss.discover_feeds: the loop



\* "feeds[normalized] = unique" of the loop, when found is not empty.
StoreFound(feeds, normalized, found) ==
    IF found # <<>> THEN DictSet(feeds, normalized, found) ELSE feeds

\* What the strategies can end with for a domain: nothing, or one feed.
FoundLists(normalized) == {<<>>, <<BaseUrl(normalized) \o <<"/feed">>>>}

LoopInit ==
    /\ oPc = "idle"
    /\ oInput = <<>>
    /\ oFound = <<>>
    /\ oLog = <<>>
    /\ oFeeds = <<>>

\* discover_feeds(domains) is called: feeds = {}.
LoopCall ==
    /\ oPc = "idle"
    /\ oPc' = "next"
    /\ UNCHANGED <<oInput, oFound, oLog, oFeeds>>
    /\ UNCHANGED <<httpVars, browserVars, parseVars, rssVars, fetchVars, cliVars, searchVars,
                   extractVars, crawlVars>>

\* "for entry in domains": the next entry is normalized; a rejected entry
\* is left with "continue".
LoopTake ==
    /\ oPc = "next"
    /\ Len(oInput) < MaxBatch
    /\ \E entry \in Entries :
        /\ oInput' = Append(oInput, entry)
        /\ oPc' = IF NormalizeDomain(entry).ok THEN "fetching" ELSE "next"
        /\ oFound' = IF NormalizeDomain(entry).ok THEN oFound ELSE Append(oFound, FALSE)
    /\ UNCHANGED <<oLog, oFeeds>>
    /\ UNCHANGED <<httpVars, browserVars, parseVars, rssVars, fetchVars, cliVars, searchVars,
                   extractVars, crawlVars>>

\* "_get_html(base_url)": the request of the homepage, which returns
\* or raises.
LoopFetch ==
    /\ oPc = "fetching"
    /\ oLog' = Append(oLog, Len(oInput))
    /\ \E raised \in BOOLEAN : oPc' = IF raised THEN "raised" ELSE "discovering"
    /\ UNCHANGED <<oInput, oFound, oFeeds>>
    /\ UNCHANGED <<httpVars, browserVars, parseVars, rssVars, fetchVars, cliVars, searchVars,
                   extractVars, crawlVars>>

\* The strategies with their requests, then "if found: feeds[normalized] = unique".
LoopDiscover ==
    /\ oPc = "discovering"
    /\ oLog' = Append(oLog, Len(oInput))
    /\ \E found \in FoundLists(NormalizeDomain(Last(oInput)).netloc) :
        /\ oFound' = Append(oFound, found # <<>>)
        /\ oFeeds' = StoreFound(oFeeds, NormalizeDomain(Last(oInput)).netloc, found)
    /\ oPc' = "next"
    /\ UNCHANGED oInput
    /\ UNCHANGED <<httpVars, browserVars, parseVars, rssVars, fetchVars, cliVars, searchVars,
                   extractVars, crawlVars>>

\* The input is exhausted: "return feeds".
LoopReturn ==
    /\ oPc = "next"
    /\ oPc' = "returned"
    /\ UNCHANGED <<oInput, oFound, oLog, oFeeds>>
    /\ UNCHANGED <<httpVars, browserVars, parseVars, rssVars, fetchVars, cliVars, searchVars,
                   extractVars, crawlVars>>

LoopNext ==
    \/ LoopCall
    \/ LoopTake
    \/ LoopFetch
    \/ LoopDiscover
    \/ LoopReturn

\* ------------------------------------------------------------ crawl.run

\* An entry of feeds: a dict with the key "domain", a dict without it, or
\* a value that is not a dict.
FeedEntry(kind, has, domain) == [kind |-> kind, hasDomain |-> has, domain |-> domain]

CrawlEntries ==
    { FeedEntry("dict", TRUE, "example.com"),
      FeedEntry("dict", TRUE, "x.com"),
      FeedEntry("dict", FALSE, ""),
      FeedEntry("str", FALSE, "") }

CrawlInputs == UNION {[1..n -> CrawlEntries] : n \in 0..MaxFeeds}



\* not isinstance(feed, dict) or "domain" not in feed
InvalidFeed(feed) == feed.kind # "dict" \/ ~feed.hasDomain

\* f"https://{feed['domain']}"
CrawlUrl(feed) == <<"https", "://", feed.domain>>

CrawlInit ==
    /\ kPc = "idle"
    /\ kFeeds = <<>>
    /\ kAt = 0
    /\ kGets = <<>>
    /\ kWarned = <<>>

\* run(feeds) is called with a list.
CrawlCall ==
    /\ kPc = "idle"
    /\ \E feeds \in CrawlInputs : kFeeds' = feeds
    /\ kPc' = "loop"
    /\ UNCHANGED <<kAt, kGets, kWarned>>
    /\ UNCHANGED <<httpVars, browserVars, parseVars, rssVars, fetchVars, cliVars, searchVars,
                   extractVars, orderVars>>

\* One turn of "for feed in feeds" on an entry that is logged and skipped.
CrawlSkip ==
    /\ kPc = "loop"
    /\ kAt < Len(kFeeds)
    /\ InvalidFeed(kFeeds[kAt + 1])
    /\ kWarned' = Append(kWarned, kAt + 1)
    /\ kAt' = kAt + 1
    /\ UNCHANGED <<kPc, kFeeds, kGets>>
    /\ UNCHANGED <<httpVars, browserVars, parseVars, rssVars, fetchVars, cliVars, searchVars,
                   extractVars, orderVars>>

\* One turn of "for feed in feeds" on a dict with a domain:
\* requests.get(url), which returns or raises; nothing catches the exception.
CrawlGet ==
    /\ kPc = "loop"
    /\ kAt < Len(kFeeds)
    /\ ~InvalidFeed(kFeeds[kAt + 1])
    /\ kGets' = Append(kGets, CrawlUrl(kFeeds[kAt + 1]))
    /\ kAt' = kAt + 1
    /\ \E raised \in BOOLEAN : kPc' = IF raised THEN "raised" ELSE "loop"
    /\ UNCHANGED <<kFeeds, kWarned>>
    /\ UNCHANGED <<httpVars, browserVars, parseVars, rssVars, fetchVars, cliVars, searchVars,
                   extractVars, orderVars>>

\* The loop is over: run returns None.
CrawlReturn ==
    /\ kPc = "loop"
    /\ kAt = Len(kFeeds)
    /\ kPc' = "returned"
    /\ UNCHANGED <<kFeeds, kAt, kGets, kWarned>>
    /\ UNCHANGED <<httpVars, browserVars, parseVars, rssVars, fetchVars, cliVars, searchVars,
                   extractVars, orderVars>>

CrawlNext ==
    \/ CrawlCall
    \/ CrawlSkip
    \/ CrawlGet
    \/ CrawlReturn

\* -------------------------------------------------------- specifications

Init == HttpInit /\ BrowserInit /\ ParseInit /\ RssInit /\ FetchInit
        /\ CliInit /\ SearchInit /\ ExtractInit /\ LoopInit /\ CrawlInit

\* http.request
HttpSpec == Init /\ [][HttpNext]_vars

\* fetch_with_browser under concurrent callers
BrowserSpec == Init /\ [][BrowserNext]_vars

\* parse.discover_feeds
ParseSpec == Init /\ [][ParseNext]_vars

\* rss.discover_feeds
RssSpec == Init /\ [][RssNext]_vars

\* rss.fetch_entries
FetchSpec == Init /\ [][FetchNext]_vars

\* cli.run with rss.run
CliSpec == Init /\ [][CliNext]_vars

\* search_sites, called again and again in one process
SearchSpec == Init /\ [][SearchNext]_vars

\* extract.parse: parse_entry and run
ExtractSpec == Init /\ [][ExtractNext]_vars

\* the loop of rss.discover_feeds over its input
OrderSpec == Init /\ [][LoopNext]_vars

\* crawl.run
CrawlSpec == Init /\ [][CrawlNext]_vars

Spec ==
    Init /\ [][HttpNext \/ BrowserNext \/ ParseNext \/ RssNext \/ FetchNext \/ CliNext
                    \/ SearchNext \/ ExtractNext \/ LoopNext \/ CrawlNext]_vars

\* ------------------------------------------------------------- properties

\* The outcomes of SESSION.request of this call, in order.
Requests == SelectSeq(hEvents, LAMBDA e : e.ev = "request")

Is429(resp) == resp.kind = "response" /\ resp.status = 429

\* C1: parse.discover_feeds invokes the approaches in the order link-rel,
\* defaults, anchors, feedfinder2, extensions; the approaches invoked are a
\* prefix of that order that ends at the first approach with a candidate
\* that survives validation; nothing is invoked after it, and the list
\* returned is the surviving candidates of that approach, or the empty
\* list when all five gave none.
C1_OrderedShortCircuit ==
    /\ Len(pInvoked) <= Len(Approaches)
    /\ pInvoked = SubSeq(Approaches, 1, Len(pInvoked))
    /\ Len(pValidBy) = Len(pInvoked)
    /\ \A i \in 1..(Len(pInvoked) - 1) : pValidBy[i] = <<>>
    /\ pPc = "running" => \A i \in 1..Len(pInvoked) : pValidBy[i] = <<>>
    /\ pPc = "returned" =>
        /\ pInvoked # <<>>
        /\ pResult = Last(pValidBy)
        /\ pResult = <<>> => Len(pInvoked) = Len(Approaches)
        /\ \A c \in Range(pResult) : pVcr \/ ValidateFeed(pNet[c])
        /\ Last(pInvoked) # "feedfinder2" =>
              Range(pResult) \subseteq Range(Candidates(Last(pInvoked), pHtml, ParseUrl, <<>>))

\* The second approach is the first with a validated candidate: two
\* approaches were invoked and the list of the second is returned.
C1_Witness ==
    /\ pPc = "returned"
    /\ ~pVcr
    /\ pInvoked = <<"link-rel", "defaults">>
    /\ pValidBy[1] = <<>>
    /\ pResult # <<>>

\* C2: when the <link> tags of the homepage give a validated feed URL,
\* rss.discover_feeds calls neither feedfinder2.find_feeds nor the default
\* path probing for that domain.
C2_LinkTagsEndSearch ==
    rLinkFeeds # <<>> =>
        /\ "feedfinder2" \notin Range(rCalls)
        /\ "fallback" \notin Range(rCalls)

\* C3: rss.discover_feeds leaves a malformed entry (empty string, None, a
\* dict without "domain", a scheme that is not http(s), no network
\* location) with "continue": no exception, no call for it, feeds as it
\* was; a key of feeds only comes from a valid entry; and a valid entry
\* taken next, after any number of skipped ones, goes on to its fetch.
C3_MalformedSkipped ==
    [][/\ (rPc = "next" /\ rCount' = rCount + 1 /\ rEntry'.label # "valid") =>
            /\ rPc' = "next"
            /\ rCalls' = <<>>
            /\ rFeeds' = rFeeds
            /\ rSkipped' = rSkipped + 1
       /\ (rPc = "next" /\ rCount' = rCount + 1 /\ rEntry'.label = "valid") =>
            /\ rPc' = "fetching"
            /\ rNorm' # ""
            /\ rSkipped' = rSkipped
       /\ rFeeds' # rFeeds =>
            /\ rEntry.label = "valid"
            /\ Keys(rFeeds') = Keys(rFeeds) \cup {rNorm}]_vars

\* A malformed entry was skipped, and the valid entry after it was
\* processed and has its feeds in the dict.
C3_Witness ==
    /\ rPc = "returned"
    /\ rCount = 2
    /\ rSkipped = 1
    /\ rEntry.label = "valid"
    /\ Keys(rFeeds) = {rNorm}

\* C4: a homepage fetch that fails does not leave rss.discover_feeds as an
\* exception: _get_html gives an empty body and status 0 and the loop goes
\* on.
C4_FetchFailureContained ==
    rPlain.kind = "exception" =>
        /\ rPc # "raised"
        /\ rGot = NoGot

\* The bot-challenge test of the specification: status 403 or 429, or a
\* marker in the body.
Blocked(plain) ==
    /\ plain.kind = "response"
    /\ (plain.status \in {403, 429} \/ plain.body.marker # "")

\* C5: when the plain response is blocked (403, 429 or a bot-challenge
\* marker in the body), _get_html has called fetch_with_browser exactly
\* once.
C5_BrowserFallback ==
    (rPc = "discovering" /\ Blocked(rPlain)) => rBrowser = 1

\* C6: k responses 429 (k < 5) and then a 200: the 200 is returned, after
\* exactly k + 1 attempts; while only 429s came, fewer than 5 of them, the
\* call is still trying.
C6_RecoversAfter429s ==
    LET reqs == Requests
        n == Len(reqs)
    IN  /\ (n >= 1 /\ n <= MaxAttempts
            /\ (\A i \in 1..(n - 1) : reqs[i].kind = "response" /\ reqs[i].status = 429)
            /\ reqs[n].kind = "response" /\ reqs[n].status = 200) =>
                /\ hPc = "returned"
                /\ hResp.status = 200
                /\ hAttempts = n
        /\ (n >= 1 /\ n < MaxAttempts
            /\ \A i \in 1..n : reqs[i].kind = "response" /\ reqs[i].status = 429) =>
                /\ hPc = "running"
                /\ hAttempts = n

\* Four responses 429 and then a 200, returned by the fifth attempt.
C6_Witness ==
    /\ hPc = "returned"
    /\ hAttempts = 5
    /\ hResp.status = 200
    /\ \A i \in 1..4 : Requests[i].status = 429

\* C7: http.request makes at most 5 attempts; an attempt that ends in a
\* network exception, a 429 or a 5xx is followed by another while fewer
\* than 5 were made; when the fifth fails too the failure is raised, no
\* response is returned and no attempt follows.
C7_AtMostFiveAttempts ==
    LET failed == hResp.kind = "exception"
                  \/ (hResp.kind = "response" /\ (hResp.status = 429 \/ hResp.status >= 500))
    IN  /\ hAttempts <= 5
        /\ Len(Requests) = hAttempts
        /\ (hAttempts \in 1..4 /\ failed) => hPc = "running"
        /\ (hAttempts = 5 /\ failed) => hPc = "raised"
        /\ hPc = "raised" => (hAttempts = 5 /\ failed)
        /\ hPc = "returned" => (hResp.kind = "response" /\ ~failed)

\* Five attempts, the last one a network exception, and the call raised.
C7_Witness ==
    /\ hPc = "raised"
    /\ hAttempts = 5
    /\ hResp.kind = "exception"
    /\ Requests[1].status = 500

\* C8: every attempt of http.request comes right after a throttle sleep.
C8_ThrottleBeforeAttempt ==
    \A i \in 1..Len(hEvents) :
        hEvents[i].ev = "request" => (i > 1 /\ hEvents[i - 1].ev = "throttle")

\* C9: a 429 whose Retry-After parses as a positive integer n makes
\* http.request sleep n seconds after that response and before the backoff
\* and the next attempt; without the header, or with one that does not
\* parse or is not positive, there is no such sleep, and either way the
\* attempt counts as a failure that is retried.
C9_RetryAfterSleep ==
    LET ra == hResp.retryAfter
        n == ParseInt(ra.text)
        positive == ra.present /\ n.ok /\ n.val > 0
        k == Len(hEvents)
        tail == IF hPc = "running" THEN SubSeq(hEvents, 1, k - 1) ELSE hEvents
    IN  /\ (Is429(hResp) /\ positive) =>
            /\ hSlept = n.val
            /\ Len(tail) >= 2
            /\ Last(tail) = SleepEv
            /\ tail[Len(tail) - 1] = RequestEv(hResp)
        /\ (Is429(hResp) /\ ~positive) =>
            /\ hSlept = 0
            /\ Last(tail) = RequestEv(hResp)
        /\ Is429(hResp) =>
            /\ hPc = (IF hAttempts < MaxAttempts THEN "running" ELSE "raised")
            /\ hPc = "running" => Last(hEvents) = BackoffEv
        /\ ~Is429(hResp) => hSlept = 0

\* A 429 with "Retry-After: 11": eleven seconds of sleep, then the retry.
C9_Witness ==
    /\ Is429(hResp)
    /\ hResp.retryAfter.text = <<"1", "1">>
    /\ hSlept = 11
    /\ hPc = "running"

\* C10: at most 2 browser sessions are open at any time.
C10_AtMostTwoSessions == Cardinality(OpenSessions) <= SemaphorePermits

\* C11: a permit of BROWSER_SEMAPHORE is held by every caller that has a
\* browser session open, from before the launch until after the close, so
\* the permits held are as many as the open sessions, and none is held once
\* every fetch is over.
C11_PermitHeldWhileOpen == bHeld = Cardinality(OpenSessions)

\* C12: when page.goto runs into its timeout, fetch_with_browser does not
\* raise: after the browser is closed it returns no body, status 0 and an
\* empty content type.
C12_TimeoutReturnsEmpty ==
    [][\A c \in Callers :
        (bPc[c] = "closing" /\ bResult[c].outcome = "timeout" /\ bPc'[c] = "idle") =>
            /\ bResult'[c].outcome = "return"
            /\ bResult'[c].body = NoBody
            /\ bResult'[c].status = 0
            /\ bResult'[c].ctype = ""]_vars

\* A fetch that timed out is over: closed, and (None, 0, "") handed back.
C12_Witness ==
    \E c \in Callers :
        /\ bPc[c] = "idle"
        /\ bResult[c] = [outcome |-> "return", body |-> NoBody, status |-> 0, ctype |-> ""]

\* A URL without its query and fragment pieces.
WithoutQueryFragment(url) == SelectSeq(url, LAMBDA t : t \notin QueryToks \cup FragToks)

\* The place of the first candidate of found that normalizes to u.
FirstSeen(found, u) ==
    CHOOSE i \in 1..Len(found) :
        /\ WithoutQueryFragment(found[i]) = u
        /\ \A j \in 1..(i - 1) : WithoutQueryFragment(found[j]) # u

\* C13: the list rss.discover_feeds stores for a domain holds every found
\* URL once, without query and fragment: candidates that differ only there
\* give one entry, and the entries are in the order they were first seen.
C13_Deduplicated ==
    (rPc \in {"next", "returned"} /\ rFound # <<>>) =>
        /\ rNorm \in Keys(rFeeds)
        /\ LET stored == Lookup(rFeeds, rNorm)
           IN  /\ Range(stored) = {WithoutQueryFragment(rFound[i]) : i \in 1..Len(rFound)}
               /\ \A i, j \in 1..Len(stored) : i < j =>
                    /\ stored[i] # stored[j]
                    /\ FirstSeen(rFound, stored[i]) < FirstSeen(rFound, stored[j])

\* feedfinder2 gave /feed?q, /feed and /atom.xml and the <link> scan gave
\* /atom.xml?q: two entries are stored, without query, first seen first.
C13_Witness ==
    /\ rPc = "next"
    /\ Len(rFound) = 4
    /\ rFound[1] = BaseUrl(rNorm) \o <<"/feed", "?q">>
    /\ rLinkFeeds = <<BaseUrl(rNorm) \o <<"/atom.xml", "?q">>>>
    /\ Lookup(rFeeds, rNorm) = <<BaseUrl(rNorm) \o <<"/feed">>, BaseUrl(rNorm) \o <<"/atom.xml">>>>

\* C14 as stated: a valid domain for which no strategy found anything has
\* no key in feeds and has its homepage in the diagnostics area.
C14_NoFeedsSaved ==
    (rPc \in {"next", "returned"} /\ "fallback" \in Range(rCalls) /\ rFound = <<>>) =>
        /\ rNorm \notin Keys(rFeeds)
        /\ [domain |-> rNorm, body |-> rGot.body] \in rSaved

\* C14, amended: a valid domain for which no strategy found anything adds
\* no key to feeds and raises nothing, and its homepage is written to the
\* diagnostics area under its normalized domain when the body has at least
\* one byte; with an empty body nothing is written.
C14_NoFeedsSavedIfBytes ==
    [][(rPc = "discovering" /\ rFound' = <<>>) =>
            /\ rPc' = "next"
            /\ rFeeds' = rFeeds
            /\ rGot.body.kind # "empty" =>
                 /\ [domain |-> rNorm, body |-> rGot.body] \in rSaved'
                 /\ \A f \in rSaved' : f.domain = rNorm => f.body = rGot.body
                 /\ Last(rCalls') = "save_raw_html"
            /\ rGot.body.kind = "empty" =>
                 /\ rSaved' = rSaved
                 /\ "save_raw_html" \notin Range(rCalls')]_vars

\* A homepage with markup and a homepage of no bytes, for both of which
\* nothing was found: the first one is in the diagnostics area, alone.
C14_Witness ==
    /\ rPc = "next"
    /\ rCount = 2
    /\ rFound = <<>>
    /\ rGot.body.kind = "empty"
    /\ rFeeds = <<>>
    /\ \E f \in rSaved : f.domain # rNorm /\ f.body.kind = "html"
    /\ Cardinality(rSaved) = 1

\* C15: a <link> tag is taken for a feed link exactly when its rel holds
\* "alternate" and its type is feed-like; so every URL the <link> tags of a
\* homepage gave comes from a tag with both.
C15_RelAndType ==
    \A u \in Range(rLinkFeeds) :
        \E i \in 1..Len(rGot.body.links) :
            LET l == rGot.body.links[i]
            IN  /\ l.href # <<>>
                /\ UrlJoin(BaseUrl(rNorm), l.href) = u
                /\ "alternate" \in Range(RelWords(l))
                /\ TypeIsFeed(l.type)

\* The homepage of scenario A: one <link rel="alternate"
\* type="application/rss+xml" href="/feed.xml">.
ScenarioAPage == RssPage(<<Link(<<"alternate">>, "application/rss+xml", <<"/feed.xml">>)>>, <<>>, "")

\* C16: for a homepage that declares <link rel="alternate"
\* type="application/rss+xml" href="/feed.xml">, with /feed.xml answering
\* as a feed, the list of the domain is exactly https://domain/feed.xml.
C16_DeclaredLinkReported ==
    (/\ rPc \in {"next", "returned"}
     /\ "feedfinder2" \in Range(rCalls)
     /\ rGot.body = ScenarioAPage
     /\ <<"/feed.xml">> \in rLive) =>
        /\ rNorm \in Keys(rFeeds)
        /\ Lookup(rFeeds, rNorm) = <<BaseUrl(rNorm) \o <<"/feed.xml">>>>

\* The nine default paths under the root of the domain, in the order of
\* the list.
DefaultUrls(normalized) ==
    [i \in 1..9 |->
        <<"https", "://", normalized,
          <<"/feed", "/rss", "/rss.xml", "/atom.xml", "/.rss", "/feed.xml", "/index.xml",
            "/feeds/posts/default", "/feed.json">>[i]>>]

\* What a URL of this domain answers to a probe.
Answer(url) == NetAt(NetOf(BaseUrl(rNorm), rLive), url)

\* C17: when the default paths are probed, what is found is the default
\* URLs of the domain whose probe passes, in the order of the list; when
\* only /feed answers as a feed that is https://domain/feed alone.
C17_DefaultPaths ==
    (rPc \in {"next", "returned"} /\ "fallback" \in Range(rCalls)) =>
        /\ rFound = SelectSeq(DefaultUrls(rNorm), LAMBDA u : Last(u) \in {Last(p) : p \in rLive})
        /\ rLive = {<<"/feed">>} =>
            /\ rFound = <<BaseUrl(rNorm) \o <<"/feed">>>>
            /\ Lookup(rFeeds, rNorm) = rFound

\* A homepage without <link> tags; only /feed answers as a feed, and the
\* default paths gave https://domain/feed.
C17_Witness ==
    /\ rPc = "next"
    /\ rGot.body = RssPage(<<>>, <<>>, "")
    /\ rCalls = <<"get_html", "feedfinder2", "link_scan", "html_parser", "fallback">>
    /\ rLive = {<<"/feed">>}
    /\ rFound = <<BaseUrl(rNorm) \o <<"/feed">>>>



\* A content type with a feed-like marker: "xml" or "application" in it.
HasFeedMarker(ctype) ==
    ctype \in {"application/rss+xml", "application/atom+xml", "application/json", "text/xml"}

\* C18: _is_feed_url confirms a URL exactly when the fetch succeeds with a
\* status below 400 and a content type with a feed-like marker; so every
\* probed default URL that answers so, text/xml included, is found.
C18_FeedLikeConfirmed ==
    (rPc \in {"next", "returned"} /\ "fallback" \in Range(rCalls)) =>
        \A i \in 1..9 :
            LET o == Answer(DefaultUrls(rNorm)[i])
            IN  (o.kind = "response" /\ o.status < 400 /\ HasFeedMarker(o.ctype))
                    <=> DefaultUrls(rNorm)[i] \in Range(rFound)

\* The lists valid of the approaches invoked so far, as one set.
EverValid == UNION {Range(pValidBy[i]) : i \in 1..Len(pValidBy)}

C20_AtMostLimit ==
    fLimit >= 1 =>
        /\ \A i \in 1..Len(fResults) : Len(fResults[i].entries) <= fLimit
        /\ Len(fCollected) >= fLimit => fPc # "url"
        /\ \A i \in 1..Len(fParsed) : fParsed[i].before < fLimit

\* With limit 1, the first of a domain's two URLs gave two entries: one is
\* in the result and the second URL was not parsed.
C20_Witness ==
    /\ fPc = "domain"
    /\ fLimit = 1
    /\ fAt >= 1
    /\ Len(fMap[fAt].urls) = 2
    /\ Len(fParsed) = 1
    /\ fParsed[1].n = 2
    /\ Len(fResults[fAt].entries) = 1

\* The feedparser.parse calls made for the item'th item of feed_map.
ParsedAt(item) == SelectSeq(fParsed, LAMBDA p : p.at = item)

\* C21: a parse that raises leaves collected and results as they were and
\* the call goes on with the next URL of the domain, or stores the domain
\* when it was the last; a stored domain is followed by the next item, and
\* the call returns only after every item of feed_map.
C21_RaiseSkipped ==
    [][/\ (fPc = "url" /\ Len(fParsed') = Len(fParsed) + 1
                /\ Last(fParsed').outcome = "raises") =>
            /\ fCollected' = fCollected
            /\ fResults' = fResults
            /\ fPc' = IF fIdx' < Len(fMap[fAt].urls) THEN "url" ELSE "store"
       /\ fPc = "store" =>
            /\ fPc' = "domain"
            /\ fResults'[fAt] = [domain |-> fMap[fAt].domain,
                                 entries |-> Take(fCollected, fLimit)]
       /\ (fPc = "domain" /\ fAt < Len(fMap)) => fAt' = fAt + 1
       /\ fPc' = "returned" => fAt = Len(fMap)
      ]_vars

\* The second of three URLs of the first domain raised after the first
\* gave an entry; the third was parsed and its entry joined the first, and
\* the second domain's URL was parsed.
C21_Witness ==
    /\ fPc = "returned"
    /\ Len(fMap) = 2
    /\ Len(ParsedAt(1)) = 3
    /\ ParsedAt(1)[1].n = 1
    /\ ParsedAt(1)[2].outcome = "raises"
    /\ ParsedAt(1)[3].n = 1
    /\ Len(fResults[1].entries) = 2
    /\ Len(ParsedAt(2)) = 1

\* C22: the returned dict has the keys of feed_map, one per item and in
\* its order, and a domain none of whose parses gave an entry has the
\* empty list.
C22_SameKeys ==
    fPc = "returned" =>
        /\ Len(fResults) = Len(fMap)
        /\ \A i \in 1..Len(fMap) :
            /\ fResults[i].domain = fMap[i].domain
            /\ (\A j \in 1..Len(ParsedAt(i)) : ParsedAt(i)[j].n = 0) =>
                    fResults[i].entries = <<>>

\* With limit 2, both URLs of the first domain failed, one by raising and
\* one with an empty feed, and the second domain had no URL: both are keys
\* with the empty list.
C22_Witness ==
    /\ fPc = "returned"
    /\ fLimit = 2
    /\ Len(fMap) = 2
    /\ Len(ParsedAt(1)) = 2
    /\ ParsedAt(1)[1].outcome = "raises"
    /\ ParsedAt(1)[2].outcome = "entries"
    /\ ParsedAt(1)[2].n = 0
    /\ fMap[2].urls = <<>>
    /\ fResults = <<[domain |-> "a.example", entries |-> <<>>],
                    [domain |-> "b.example", entries |-> <<>>]>>

\* C23: rss.run raises only when no feed was discovered for any domain;
\* with a feed for at least one domain it returns the entries, a domain
\* without entries included.
C23_RaisesOnlyWithoutFeeds ==
    cRun = "raised" => cFeeds = <<>>

\* C24: once discovery has ended with no feed for any domain, cli.run is
\* over with an exception (a non-zero exit), and neither the feed JSON
\* was written nor any downstream stage invoked.
C24_NoFeedsNoDownstream ==
    (cPc \notin {"start", "discover"} /\ cFeeds = <<>>) =>
        /\ cPc = "done"
        /\ cExit \in {"ValueError", "SystemExit", "RequestException"}
        /\ cCalls = <<"search", "discover_feeds">>

\* Two domains were searched, discovery returned the empty dict and the
\* run ended with the ValueError of rss.run.
C24_Witness ==
    /\ cPc = "done"
    /\ cDomains = <<"a.example", "b.example">>
    /\ cFeeds = <<>>
    /\ cRun = "raised"
    /\ cExit = "ValueError"

\* C25: a call of _search_google that begins after MAX_CONSECUTIVE or
\* more 429 responses in a row issues no request and returns [].
C25_BreakerSuppresses ==
    sAtCall >= MaxConsecutive => (sAttempt = 0 /\ sPc = "returned" /\ sGoogle = <<>>)

\* C26: a call of _search_google issues at most MAX_RETRIES requests; when
\* MAX_RETRIES requests were all answered 429 the call has returned [],
\* and search_sites has returned [] when the other engines gave nothing.
C26_AtMostMaxRetries ==
    /\ sAttempt <= MaxRetries
    /\ (sAttempt = MaxRetries /\ sStreak - sAtCall = MaxRetries) =>
            /\ sPc = "returned"
            /\ sGoogle = <<>>
            /\ sOthers = <<<<>>, <<>>>> => sResult = <<>>

\* The second call in a row whose three requests were all answered 429
\* returned [] with no other engine configured.
C26_Witness ==
    /\ sCalls = 2
    /\ sPc = "returned"
    /\ sAtCall = MaxRetries
    /\ sAttempt = MaxRetries
    /\ sStreak = 2 * MaxRetries
    /\ sOthers = <<<<>>, <<>>>>
    /\ sResult = <<>>

\* The raw title and summary of the entry parse_entry was called with.
TitleOf(entry) == IF "title" \in DOMAIN entry /\ entry.title # NoneValue THEN entry.title ELSE <<>>
SummaryOf(entry) ==
    IF "summary" \in DOMAIN entry /\ entry.summary # NoneValue THEN entry.summary ELSE <<>>

\* name is title without its leading and trailing whitespace.
IsTrimOf(name, title) ==
    \E a \in 0..Len(title) : \E b \in 0..(Len(title) - a) :
        /\ name = SubSeq(title, a + 1, Len(title) - b)
        /\ \A i \in 1..a : title[i] \in Whitespace
        /\ \A i \in (Len(title) - b + 1)..Len(title) : title[i] \in Whitespace
        /\ name # <<>> => (name[1] \notin Whitespace /\ name[Len(name)] \notin Whitespace)

RECURSIVE WithoutCommas(_)
WithoutCommas(t) ==
    IF t = <<>> THEN <<>>
    ELSE IF Head(t) = "," THEN WithoutCommas(Tail(t))
    ELSE <<Head(t)>> \o WithoutCommas(Tail(t))

\* g is <digits> or <digits>.<digits>.
IsNumberText(g) ==
    \E a \in 1..Len(g) :
        /\ \A i \in 1..a : g[i] \in Digits
        /\ \/ a = Len(g)
           \/ /\ a + 2 <= Len(g)
              /\ g[a + 1] = "."
              /\ \A i \in (a + 2)..Len(g) : g[i] \in Digits

\* The positions e such that t[i..e] is a number followed by optional
\* whitespace and the letter m.
MatchEnds(t, i) ==
    {e \in i..Len(t) :
        /\ IsNumberText(SubSeq(t, i, e))
        /\ \E m \in (e + 1)..Len(t) :
            /\ t[m] \in {"m", "M"}
            /\ \A k \in (e + 1)..(m - 1) : t[k] \in Whitespace}

\* length is the number of the leftmost match in text, or None.
IsFirstLength(length, text) ==
    LET starts == {i \in 1..Len(text) : MatchEnds(text, i) # {}}
    IN  IF starts = {} THEN length = NoLength
        ELSE \A e \in MatchEnds(text, CHOOSE i \in starts : \A k \in starts : i <= k) :
                /\ length.some
                /\ length = Float(SubSeq(text, CHOOSE i \in starts : \A k \in starts : i <= k, e))

\* C27: parse_entry gives the trimmed title as name (empty without a
\* title) and as length_m the number of the first <digits>[.<digits>]
\* followed by optional whitespace and m or M in title + " " + summary
\* without its commas, or None; the title of scenario D gives 180.0.
C27_NameAndLength ==
    xPc = "parsed" =>
        /\ IsTrimOf(xRecord.name, TitleOf(xEntry))
        /\ IsFirstLength(xRecord.length_m,
                         WithoutCommas(TitleOf(xEntry) \o <<" ">> \o SummaryOf(xEntry)))
        /\ xEntry = [k \in {"title"} |-> Azzam] =>
                /\ xRecord.name = Azzam
                /\ xRecord.length_m = [some |-> TRUE, whole |-> 180, frac |-> <<>>]

\* parse_entry was called with the entry of scenario D.
C27_Witness ==
    /\ xPc = "parsed"
    /\ xEntry = [k \in {"title"} |-> Azzam]
    /\ xRecord.length_m.whole = 180

\* C28: the record has the keys name and length_m and, of link, published
\* and summary, those the entry has, each with the entry's value; it has
\* no other key.
C28_CarriedKeys ==
    xPc = "parsed" =>
        /\ DOMAIN xRecord =
                {"name", "length_m"} \cup ({"link", "published", "summary"} \cap DOMAIN xEntry)
        /\ \A k \in {"link", "published", "summary"} \cap DOMAIN xEntry :
                xRecord[k] = xEntry[k]

\* The entry had a title, a summary of None, a link and an author but no
\* published: the record has the summary None and the link, and neither
\* published nor author.
C28_Witness ==
    /\ xPc = "parsed"
    /\ DOMAIN xEntry = {"title", "summary", "link", "author"}
    /\ xEntry.summary = NoneValue
    /\ DOMAIN xRecord = {"name", "length_m", "summary", "link"}
    /\ xRecord.summary = NoneValue
    /\ xRecord.link = xEntry.link

\* The entries of the mapping, domain after domain.
RECURSIVE Flattened(_)
Flattened(input) ==
    IF input = <<>> THEN <<>> ELSE Head(input).items \o Flattened(Tail(input))

\* C29: run returns one record per entry of the mapping: record i is
\* parse_entry of the i-th entry, counted domain after domain and, within
\* a domain, in the order of its list.
C29_FlattensInOrder ==
    xPc = "returned" =>
        /\ Len(xRecords) = Len(Flattened(xInput))
        /\ \A i \in 1..Len(xRecords) : xRecords[i] = ParseEntry(Flattened(xInput)[i])

\* Two domains with two entries and one entry, all different: three
\* records, the first domain's first.
C29_Witness ==
    /\ xPc = "returned"
    /\ Len(xInput) = 2
    /\ Len(xInput[1].items) = 2
    /\ Len(xInput[2].items) = 1
    /\ xInput[1].items[1] # xInput[1].items[2]
    /\ xInput[1].items[2] # xInput[2].items[1]
    /\ xInput[1].items[1] # xInput[2].items[1]
    /\ Len(xRecords) = 3
    /\ xRecords[1] = ParseEntry(xInput[1].items[1])
    /\ xRecords[3] = ParseEntry(xInput[2].items[1])

\* The network location written in an entry's text.
ExpectedKey(entry) == CHOOSE t \in Range(entry.domain) : t \in HostToks

\* The entry of the loop has been through the strategies.
Processed == rPc = "next" /\ rCalls # <<>>

\* C31 as stated: an accepted entry, string or record, gives the key of its
\* network location, and the list under the key is what the feed finder
\* returned for https://<network location>.
C31_ListIsFinderResult ==
    (Processed /\ rFinder.called /\ rFinder.feeds # <<>>) =>
        /\ rNorm = ExpectedKey(rEntry)
        /\ rNorm \in Keys(rFeeds)
        /\ Lookup(rFeeds, rNorm) = rFinder.feeds

\* C31: an accepted entry, a plain string or a record, with or without a
\* scheme, is processed under its network location; when the homepage body
\* is HTML and the feed finder returns a non-empty list for
\* https://<network location>, that location is a key of the FeedMap and its
\* list is the finder result followed by the URLs of the <link> scan, each
\* without query and fragment and kept once, first seen first.
C31_KeyedByNetloc ==
    Processed =>
        /\ rNorm = ExpectedKey(rEntry)
        /\ rFinder.called = HasHtml(rGot.body)
        /\ (rFinder.called /\ rFinder.feeds # <<>>) =>
             /\ rFinder.feeds \in {o.feeds : o \in FinderOutcomes(<<"https", "://", rNorm>>)}
             /\ rNorm \in Keys(rFeeds)
             /\ LET all == rFinder.feeds \o rLinkFeeds
                    stored == Lookup(rFeeds, rNorm)
                IN  /\ Range(stored) = {WithoutQueryFragment(all[i]) : i \in 1..Len(all)}
                    /\ \A i, j \in 1..Len(stored) : i < j =>
                         /\ stored[i] # stored[j]
                         /\ FirstSeen(all, stored[i]) < FirstSeen(all, stored[j])

\* The record {domain: a.com} comes after another accepted entry of a.com;
\* the finder returned https://a.com/feed and that is the list of the one key.
C31_Witness ==
    /\ Processed
    /\ rCount = 2
    /\ rSkipped = 0
    /\ rValid = {"a.com"}
    /\ rEntry = DictEntry("valid", TRUE, <<"a.com">>)
    /\ rFinder.feeds = <<<<"https", "://", "a.com", "/feed">>>>
    /\ rFeeds = <<[domain |-> "a.com", urls |-> <<<<"https", "://", "a.com", "/feed">>>>]>>

\* The network location of the i-th entry of the input, "" for a rejected one.
NetlocAt(i) == NormalizeDomain(oInput[i]).netloc

\* The first position of the input whose entry has the network location k.
FirstOccurrence(k) ==
    CHOOSE i \in 1..Len(oInput) :
        /\ NetlocAt(i) = k
        /\ \A j \in 1..(i - 1) : NetlocAt(j) # k

\* The first position of the input whose entry has the network location k
\* and ended with feeds.
FirstFound(k) ==
    CHOOSE i \in 1..Len(oFound) :
        /\ NetlocAt(i) = k /\ oFound[i]
        /\ \A j \in 1..(i - 1) : ~(NetlocAt(j) = k /\ oFound[j])

\* The network calls are made for the entries one after another, in input order.
OneAfterAnother ==
    /\ \A i, j \in 1..Len(oLog) : i < j => oLog[i] <= oLog[j]
    /\ \A i \in 1..Len(oLog) : oLog[i] <= Len(oInput) /\ NetlocAt(oLog[i]) # ""

\* C32 as stated: the domains are processed strictly one after another in
\* input order, and the keys of the FeedMap are in the order of their first
\* occurrence in the input.
C32_KeysInInputOrder ==
    /\ OneAfterAnother
    /\ \A i, j \in 1..Len(oFeeds) : i < j =>
         FirstOccurrence(oFeeds[i].domain) < FirstOccurrence(oFeeds[j].domain)

\* C32: the domains are processed strictly one after another in input
\* order: every network call for entry i is made before the first network
\* call for a later entry; the keys of the FeedMap are the network locations
\* of the entries that ended with feeds, in the order of the first such
\* entry of each.
C32_KeysInFoundOrder ==
    /\ OneAfterAnother
    /\ Len(oFound) <= Len(oInput)
    /\ Keys(oFeeds) = {NetlocAt(i) : i \in {n \in 1..Len(oFound) : oFound[n]}}
    /\ \A i, j \in 1..Len(oFeeds) : i < j =>
         /\ oFeeds[i].domain # oFeeds[j].domain
         /\ FirstFound(oFeeds[i].domain) < FirstFound(oFeeds[j].domain)

\* a.com, b.com, a.com: the first entry found nothing, the other two found
\* a feed, and the key of b.com comes before the key of a.com.
C32_Witness ==
    /\ oPc = "returned"
    /\ Len(oInput) = 3
    /\ oFound = <<FALSE, TRUE, TRUE>>
    /\ oLog = <<1, 1, 2, 2, 3, 3>>
    /\ NetlocAt(1) = "a.com" /\ NetlocAt(2) = "b.com" /\ NetlocAt(3) = "a.com"
    /\ Len(oFeeds) = 2
    /\ oFeeds[1].domain = "b.com"
    /\ oFeeds[2].domain = "a.com"

\* No element of the list occurs twice.
NoRepeat(s) == \A i, j \in 1..Len(s) : i < j => s[i] # s[j]

\* The first place of d in the list.
FirstIn(s, d) == CHOOSE i \in 1..Len(s) : s[i] = d /\ \A j \in 1..(i - 1) : s[j] # d

\* C33: search_sites returns every root domain the engines gave exactly
\* once, in the order in which the domains are first seen across the engines
\* (Google, then Bing, then DuckDuckGo), and search.run returns one record
\* per domain of all the queries, never two with the same domain.
C33_EachDomainOnce ==
    /\ sPc = "returned" =>
         LET all == sGoogle \o sOthers[1] \o sOthers[2]
         IN  /\ NoRepeat(sGoogle)
             /\ NoRepeat(sResult)
             /\ Range(sResult) = Range(all)
             /\ \A i, j \in 1..Len(sResult) : i < j =>
                    FirstIn(all, sResult[i]) < FirstIn(all, sResult[j])
    /\ sRunPc = "returned" =>
         /\ NoRepeat([i \in 1..Len(sOut) |-> sOut[i].domain])
         /\ {sOut[i].domain : i \in 1..Len(sOut)} = {sRun[i].domain : i \in 1..Len(sRun)}
         /\ Range(sOut) \subseteq Range(sRun)

\* Google's links on example.com, blog.example.com and other.com gave two
\* domains and Bing repeated example.com; run saw example.com in two
\* queries at different times and returned one record for it.
C33_Witness ==
    /\ sPc = "returned"
    /\ sGoogle = <<"example.com", "other.com">>
    /\ sOthers[1] = <<"example.com", "third.org">>
    /\ sResult = <<"example.com", "other.com", "third.org">>
    /\ sRunPc = "returned"
    /\ Len(sRun) > Len(sOut)
    /\ \E i, j \in 1..Len(sRun) :
         /\ sRun[i].domain = "example.com" /\ sRun[j].domain = "example.com"
         /\ sRun[i].timestamp < sRun[j].timestamp
         /\ sRun[j] \in Range(sOut)

\* The entries of feeds that are dicts with the key "domain", in input order.
DomainEntries == SelectSeq(kFeeds, LAMBDA f : f.kind = "dict" /\ f.hasDomain)

\* C34: when crawl.run has ended, exactly one GET to https://<domain> was
\* issued for each entry that is a dict with a "domain" key, in input order,
\* and every other entry was logged and skipped without a request.
C34_OneGetPerDomainEntry ==
    kPc \in {"returned", "raised"} =>
        /\ kGets = [i \in 1..Len(DomainEntries) |-> <<"https", "://", DomainEntries[i].domain>>]
        /\ Len(kWarned) = Len(kFeeds) - Len(DomainEntries)
        /\ \A i \in 1..Len(kWarned) : kFeeds[kWarned[i]] \notin Range(DomainEntries)

\* The strategies that read the homepage.
HtmlStrategies == {"feedfinder2", "link_scan", "html_parser"}

\* What the strategies that read the homepage gave for the entry.
HtmlFound == rFinder.feeds \o rLinkFeeds

\* C35: when the homepage fetch returned an empty body, no strategy that
\* reads the homepage is invoked and the default paths are probed right
\* after the fetch; for every processed domain the default paths are probed
\* exactly when the strategies that read the homepage gave no feed.
C35_FallbackIffNoHtmlFeed ==
    Processed =>
        /\ rGot.body.kind = "empty" =>
             /\ rCalls = <<"get_html", "fallback">>
             /\ HtmlFound = <<>>
        /\ ~HasHtml(rGot.body) => Range(rCalls) \cap HtmlStrategies = {}
        /\ "fallback" \in Range(rCalls) <=> HtmlFound = <<>>
        /\ "fallback" \notin Range(rCalls) => rFound = HtmlFound
        /\ Len(SelectSeq(rCalls, LAMBDA c : c = "fallback")) <= 1

\* An empty 200 answer: the default paths were probed at once and /feed
\* answered as a feed.
C35_Witness ==
    /\ Processed
    /\ rGot.body.kind = "empty"
    /\ rCalls = <<"get_html", "fallback">>
    /\ rLive = {<<"/feed">>}
    /\ rFound # <<>>
    /\ rNorm \in Keys(rFeeds)

\* C36: in every FeedMap of rss.discover_feeds each key is a non-empty
\* network location (and no key occurs twice), each value is a non-empty
\* list, no URL occurs twice in a list, and every URL of a list has an
\* empty query string and an empty fragment.
C36_FeedMapShape ==
    /\ NoRepeat([i \in 1..Len(rFeeds) |-> rFeeds[i].domain])
    /\ \A i \in 1..Len(rFeeds) :
        /\ rFeeds[i].domain # ""
        /\ rFeeds[i].domain \in HostToks
        /\ rFeeds[i].urls # <<>>
        /\ NoRepeat(rFeeds[i].urls)
        /\ \A n \in 1..Len(rFeeds[i].urls) :
            /\ Range(rFeeds[i].urls[n]) \cap (QueryToks \cup FragToks) = {}
            /\ (Processed /\ rFound # <<>> /\ rFeeds[i].domain = rNorm) =>
                 /\ UrlParse(rFeeds[i].urls[n]).query = ""
                 /\ UrlParse(rFeeds[i].urls[n]).fragment = ""

\* A returned FeedMap of two keys; the last domain had /feed?q and /feed
\* among its candidates and has a list of two URLs.
C36_Witness ==
    /\ rPc = "returned"
    /\ Len(rFeeds) = 2
    /\ Len(rFound) > 2
    /\ \E i \in 1..Len(rFound) : "?q" \in Range(rFound[i])
    /\ Len(Lookup(rFeeds, rNorm)) = 2

\* C37 as stated: when discover_feeds has returned, no domain that is a key
\* of the FeedMap has a diagnostics file written in the run.
C37_NoFileForKey ==
    rPc = "returned" => \A f \in rSaved : f.domain \notin Keys(rFeeds)

\* C37: the processing of an entry writes the diagnostics file only if the
\* entry ends with no confirmed feed and its homepage body is non-empty: an
\* entry that puts its key into the FeedMap writes no file, and an entry
\* with an empty body and no feeds adds neither a key nor a file. Keys and
\* files of other entries stay as they are.
C37_FileOnlyWithoutFeeds ==
    [][rPc = "discovering" =>
            /\ "save_raw_html" \in Range(rCalls') =>
                 /\ rFound' = <<>>
                 /\ rGot.body.kind # "empty"
                 /\ rFeeds' = rFeeds
            /\ rFound' # <<>> =>
                 /\ rNorm \in Keys(rFeeds')
                 /\ "save_raw_html" \notin Range(rCalls')
                 /\ rSaved' = rSaved
            /\ (rGot.body.kind = "empty" /\ rFound' = <<>>) =>
                 /\ rFeeds' = rFeeds
                 /\ rSaved' = rSaved
                 /\ "save_raw_html" \notin Range(rCalls')
            /\ \A f \in rSaved : f.domain # rNorm => f \in rSaved'
            /\ \A i \in 1..Len(rFeeds) : rFeeds[i].domain # rNorm => rFeeds[i] \in Range(rFeeds')]_vars

\* The second entry of a.com found a feed and wrote no file; the file the
\* first entry of a.com wrote is still there.
C37_Witness ==
    /\ Processed
    /\ rCount = 2
    /\ rFound # <<>>
    /\ rNorm \in Keys(rFeeds)
    /\ "save_raw_html" \notin Range(rCalls)
    /\ \E f \in rSaved : f.domain = rNorm

\* The validation requests a step adds.
NewRequests == SubSeq(pRequests', Len(pRequests) + 1, Len(pRequests'))

\* C38: within one call of parse.discover_feeds no candidate is validated
\* twice: a candidate seen by an earlier approach, or earlier in the same
\* approach, gets no further validation request when it is proposed again
\* and is in neither the valid list of the later approach nor the result.
C38_ValidatedOnce ==
    [][pPc = "running" =>
            /\ NoRepeat(pRequests')
            /\ pSeen \subseteq pSeen'
            /\ Range(NewRequests) \cap pSeen = {}
            /\ Range(pResult') \cap pSeen = {}
            /\ Len(pValidBy') > Len(pValidBy) => Range(Last(pValidBy')) \cap pSeen = {}]_vars

\* /feed was rejected as a default endpoint; the anchors of the page
\* proposed it twice and no request was added for it.
C38_Witness ==
    /\ pPc = "running"
    /\ ~pVcr
    /\ pInvoked = <<"link-rel", "defaults", "anchors">>
    /\ pHtml.anchors = <<<<"/feed">>, <<"/feed">>>>
    /\ Len(pRequests) = 4
    /\ pRequests[1] = U("/feed")
    /\ pNet[U("/feed")].status = 404
    /\ pValidBy[3] = <<>>

\* A response with a status below 500 other than 429.
Returnable(resp) == resp.kind = "response" /\ resp.status < 500 /\ resp.status # 429

\* C39: the attempt of http.request that receives a response with a status
\* below 500 other than 429 (403 and 404 included) returns it to the
\* caller: the attempt is followed by no retry and no backoff, sleeps for
\* nothing and raises nothing.
C39_ReturnedAtOnce ==
    [][(hPc = "running" /\ Returnable(hResp')) =>
            /\ hPc' = "returned"
            /\ hAttempts' = hAttempts + 1
            /\ hSlept' = 0
            /\ hEvents' = Append(hEvents, [ev |-> "request", kind |-> "response",
                                           status |-> hResp'.status])]_vars

\* The first attempt was answered 403 and the call has returned after it.
C39_Witness ==
    /\ hPc = "returned"
    /\ hAttempts = 1
    /\ hResp.status = 403
    /\ hSlept = 0
    /\ hEvents = <<[ev |-> "request", kind |-> "response", status |-> 403]>>

\* How often u occurs in the list.
Occurrences(s, u) == Cardinality({i \in 1..Len(s) : s[i] = u})

\* C40: fetch_entries changes the caller's feed_map only by permuting URL
\* lists: at every moment of a call feed_map has the keys it had, in the
\* same order, every key maps to the same multiset of URLs as when the call
\* began, and the list of a domain the loop has not reached is untouched.
C40_OnlyPermuted ==
    /\ Len(fMap) = Len(fInput)
    /\ \A i \in 1..Len(fMap) :
        /\ fMap[i].domain = fInput[i].domain
        /\ Len(fMap[i].urls) = Len(fInput[i].urls)
        /\ \A u \in Range(fMap[i].urls) \cup Range(fInput[i].urls) :
                Occurrences(fMap[i].urls, u) = Occurrences(fInput[i].urls, u)
        /\ i > fAt => fMap[i].urls = fInput[i].urls

\* The call has returned; the three URLs of the first domain are in another
\* order than before and the list of the second domain, one URL twice, is
\* as it was.
C40_Witness ==
    /\ fPc = "returned"
    /\ Len(fMap) = 2
    /\ fInput[1].urls = <<"feed", "atom.xml", "rss">>
    /\ fMap[1].urls = <<"rss", "feed", "atom.xml">>
    /\ fMap[2].urls = <<"feed", "feed">>

====
